---- MODULE Spec2Model ----
(***************************************************************************)
(* Verification model of the retrieval-augmented answering core:           *)
(*   - VectorDBService   (src/utils/vector_db.py)                          *)
(*   - the ingestion and answer pipeline (src/utils/nlp_utils_enhanced.py) *)
(*   - ChatbotService    (src/back/xavier_back/services/chatbot_service.py)*)
(*   - the cache         (src/back/xavier_back/utils/cache_utils.py)       *)
(***************************************************************************)
EXTENDS Integers, Sequences, FiniteSets, TLC

(***************************************************************************)
(* Bounds of the model.                                                    *)
(***************************************************************************)
\* texts handed to add_documents over one run (each call brings fresh texts)
MaxTexts == 3
\* texts per add_documents call
MaxDocs == 2
\* largest top_k passed to search
MaxTopK == 2
\* sub-batch size of add_documents; the code's default is 100
\* (src/utils/vector_db.py:206), scaled down with MaxDocs
BatchSize == 1
\* handler runs and clock ticks of one behaviour
MaxSteps == 3
\* seconds that pass in one step of the clock, and the last instant
TickLen == 400
MaxClock == 400
\* questions asked while a retrain runs
MaxAsks == 2
\* largest count of consecutive failures passed to should_suggest_ticket
MaxFailures == 3
\* texts sent to the Together API in one request (50 in the code)
EmbedBatchSize == 2
\* largest hash seed a Python process may draw at start (PYTHONHASHSEED)
MaxHashSeed == 1
\* most sentences in a text given to chunk_text
MaxSentences == 3
\* most words in a question given to calculate_response_confidence
MaxWords == 4

(***************************************************************************)
(* Program constants.                                                      *)
(***************************************************************************)
\* embedding dimension of the fallback / sentence-transformers provider
DimFallback == 384
\* embedding dimension of the Together provider
DimTogether == 768
\* embedding dimensions of the OpenAI and Cohere providers
DimOpenAI == 1536
DimCohere == 1024
\* Python's None, and the falsy empty string, where a string is expected
PyNone == "<None>"

\* longest key kept as it is by generate_cache_key
KeyMaxLen == 250
\* size of in_memory_cache above which cache_set drops expired entries
InMemoryLimit == 1000
\* cache lifetimes, in seconds
ANSWER_TTL == 300
VECTOR_SEARCH_TTL == 300
LLM_RESPONSE_TTL == 1800
ANSWER_CONFIDENCE_TTL == 300
\* CONFIDENCE_THRESHOLDS
ThresholdHigh == 70
ThresholdMedium == 50
ThresholdLow == 20
ThresholdVeryLow == 0
\* confidence the pipeline gives each fixed outcome
GreetingConfidence == 100
PartialMatchConfidence == 30
AlternativesConfidence == 35
RephrasingConfidence == 25
BasicFallbackConfidence == 15
NoConfidence == -1
\* should_suggest_ticket: strategy level and failures it asks for
LastResortLevel == 4
TicketAfterFailures == 2
\* a question shorter than this is taken as a greeting
ShortQuestionLen == 5
\* top_k of retrieve_relevant_context, rows of history read by get_answer
RetrieveTopK == 8
HistoryLimit == 5
\* content of the placeholder chunk, position of the question among the texts
PlaceholderText == 0
QueryPoint == 1
\* largest confidence score
MaxConfidence == 100
\* TextProcessor: chunk_size, chunk_overlap, min_chunk_size
ChunkSize == 800
ChunkOverlap == 200
MinChunkSize == 100

Dims == {DimFallback, DimTogether}
Names == {"t1"}
Modes == {"qdrant", "faiss", "text"}
NoFilter == "none"

VARIABLES
    \* ---- VectorDBService and its backends ----
    mode,                        \* use_qdrant / FAISS_AVAILABLE, fixed at construction
    collections,                 \* self.collections (Qdrant registry)
    client,                      \* the Qdrant backend behind self.client
    indexes,                     \* self.indexes (FAISS, in memory)
    disk,                        \* vector_db/faiss/<name>.index and its json files
    text_stores,                 \* self.text_stores
    metadata_stores,             \* self.metadata_stores
    collection_dimension_cache,  \* self.collection_dimension_cache (keys set True)
    \* ---- the callers of the service ----
    topLevelId,                  \* the metadata passed in carry "chatbot_id" at top level
    \* ---- observation of the calls made on the service ----
    nextText,                    \* next fresh text
    added,                       \* texts passed to add_documents so far, per name
    removed,                     \* texts added before the last delete_collection
    lastAddDim,                  \* dimension of the last add_documents, 0 if none
    recreated,                   \* create_collection ran since the last delete
    searchRes,                   \* outcome of the search, when the last call was one
    \* ---- embedding service, chatbot row, conversation rows ----
    provider,                    \* embedding_service.provider
    chatbot_data,                \* Chatbot.data of the tenant
    messages,                    \* ConversationMessage rows, per conversation id
    nextUuid,                    \* number of conversation ids generated so far
    \* ---- cache_utils ----
    redis_client,                \* a Redis client is configured
    redis_store,                 \* the keys held by Redis
    in_memory_cache,             \* in_memory_cache: the value of each key
    in_memory_ttl,               \* in_memory_ttl: the expiry time of each key
    now,                         \* time.time()
    \* ---- observation of the last service call ----
    lastCall,
    steps,                       \* calls and clock ticks so far
    \* ---- a retrain and a question running concurrently ----
    trainer,
    asker,
    \* ---- one evaluation of should_suggest_ticket ----
    ticket

vsVars == <<mode, collections, client, indexes, disk, text_stores,
            metadata_stores, collection_dimension_cache>>
obsVars == <<topLevelId, nextText, added, removed, lastAddDim, recreated, searchRes>>
dbVars == <<provider, chatbot_data, messages, nextUuid>>
cacheVars == <<redis_client, redis_store, in_memory_cache, in_memory_ttl, now>>
procVars == <<trainer, asker>>
restVars == <<dbVars, cacheVars, lastCall, steps, procVars, ticket>>
vars == <<vsVars, obsVars, restVars>>

(***************************************************************************)
(* Helpers on dictionaries (functions with a finite domain).               *)
(***************************************************************************)
Put(f, k, v) == [x \in (DOMAIN f) \cup {k} |-> IF x = k THEN v ELSE f[x]]
Drop(f, k) == [x \in (DOMAIN f) \ {k} |-> f[x]]
EmptyDict == [x \in {} |-> 0]
Min(a, b) == IF a <= b THEN a ELSE b
Abs(a) == IF a < 0 THEN -a ELSE a
SeqRange(s) == {s[i] : i \in DOMAIN s}

\* The service object and its backends as one record, for the methods below.
World == [mode |-> mode, collections |-> collections, client |-> client,
          indexes |-> indexes, disk |-> disk, text_stores |-> text_stores,
          metadata_stores |-> metadata_stores,
          collection_dimension_cache |-> collection_dimension_cache]

SetWorld(w) ==
    /\ mode' = w.mode
    /\ collections' = w.collections
    /\ client' = w.client
    /\ indexes' = w.indexes
    /\ disk' = w.disk
    /\ text_stores' = w.text_stores
    /\ metadata_stores' = w.metadata_stores
    /\ collection_dimension_cache' = w.collection_dimension_cache

\* A stored metadata dictionary: the caller's metadata plus the "text" key.
Meta(t, cid) == [text |-> t, chatbot_id |-> cid]
\* A Qdrant point: vector (by its dimension) and payload.
PointStruct(t, d, cid) == [text |-> t, dim |-> d, chatbot_id |-> cid]

(***************************************************************************)
(* VectorDBService.__init__                                                *)
(***************************************************************************)
VectorDBService_init(m) ==
    [mode |-> m, collections |-> {}, client |-> EmptyDict,
     indexes |-> EmptyDict, disk |-> EmptyDict, text_stores |-> EmptyDict,
     metadata_stores |-> EmptyDict, collection_dimension_cache |-> {}]

(***************************************************************************)
(* VectorDBService.create_collection                                       *)
(* fault = "create": the backend call raises; fault = "load": the index    *)
(* file on disk cannot be read.                                            *)
(***************************************************************************)
NewIndex(size) == [d |-> size, vecs |-> <<>>]

create_collection(w, n, size, fault) ==
    IF w.mode = "qdrant" THEN
        IF n \notin w.collections THEN
            IF fault = "create" \/ n \in DOMAIN w.client
            THEN [w |-> w, ret |-> FALSE]
            ELSE [w |-> [w EXCEPT
                            !.client = Put(@, n, [size |-> size, points |-> EmptyDict]),
                            !.collections = @ \cup {n}],
                  ret |-> TRUE]
        ELSE [w |-> w, ret |-> TRUE]
    ELSE IF w.mode = "faiss" THEN
        IF n \notin DOMAIN w.indexes THEN
            IF n \in DOMAIN w.disk /\ fault # "load"
            THEN [w |-> [w EXCEPT
                            !.indexes = Put(@, n, w.disk[n].index),
                            !.metadata_stores = Put(@, n, w.disk[n].metadata),
                            !.text_stores = Put(@, n, w.disk[n].texts)],
                  ret |-> TRUE]
            ELSE [w |-> [w EXCEPT
                            !.indexes = Put(@, n, NewIndex(size)),
                            !.metadata_stores = Put(@, n, <<>>),
                            !.text_stores = Put(@, n, <<>>)],
                  ret |-> TRUE]
        ELSE [w |-> w, ret |-> TRUE]
    ELSE
        IF n \notin DOMAIN w.text_stores
        THEN [w |-> [w EXCEPT
                        !.text_stores = Put(@, n, <<>>),
                        !.metadata_stores = Put(@, n, <<>>)],
              ret |-> TRUE]
        ELSE [w |-> w, ret |-> TRUE]

(***************************************************************************)
(* VectorDBService.add_documents                                           *)
(*                                                                         *)
(* Faults of one call (at most one per call):                              *)
(*   info_validation        get_collection raises a validation error       *)
(*   info_validation_probe  ... and the probe search fails for another     *)
(*                          reason than the dimension                      *)
(*   info_other             the first get_collection raises another error  *)
(*   delete / create        client.delete_collection / create raises       *)
(*   count                  the get_collection used for start_id raises    *)
(*   batch0, batch1, upsert the upsert of sub-batch 0 / 1 / every one fails*)
(*   save, load             the FAISS files cannot be written / read       *)
(***************************************************************************)
QdrantAddFaults == {"none", "info_validation", "info_validation_probe",
                    "info_other", "delete", "create", "count",
                    "batch0", "batch1", "upsert"}
FaissAddFaults == {"none", "save", "load"}

CacheAdd(w, n, d) ==
    [w EXCEPT !.collection_dimension_cache = @ \cup {<<n, d>>}]

\* "try: client.delete_collection except: pass", discard, create, cache
RecreateLenient(w, n, d, fault) ==
    LET w1 == IF fault = "delete" THEN w ELSE [w EXCEPT !.client = Drop(@, n)]
        w2 == [w1 EXCEPT !.collections = @ \ {n}]
    IN  CacheAdd(create_collection(w2, n, d, fault).w, n, d)

\* delete, remove, create, cache, inside the try of the dimension check
RecreateStrict(w, n, d, fault) ==
    IF fault = "delete"
    THEN [exc |-> TRUE, w |-> w]
    ELSE [exc |-> FALSE,
          w |-> CacheAdd(create_collection(
                    [w EXCEPT !.client = Drop(@, n), !.collections = @ \ {n}],
                    n, d, fault).w, n, d)]

\* The dimension check that precedes the insertion (Qdrant).  The branch for a
\* cache entry that is False is unreachable: the cache only ever stores True.
EnsureDimension(w, n, d, fault) ==
    IF n \in w.collections THEN
        IF <<n, d>> \in w.collection_dimension_cache THEN w
        ELSE
            LET validation == fault \in {"info_validation", "info_validation_probe"}
                infoFails == validation \/ fault = "info_other"
                                \/ n \notin DOMAIN w.client
                Recreated(r) ==
                    IF r.exc THEN RecreateLenient(r.w, n, d, fault) ELSE r.w
            IN  IF ~infoFails THEN
                    IF w.client[n].size # d
                    THEN Recreated(RecreateStrict(w, n, d, fault))
                    ELSE CacheAdd(w, n, d)
                ELSE IF validation THEN
                    IF fault = "info_validation_probe" \/ n \notin DOMAIN w.client
                    THEN w
                    ELSE IF w.client[n].size # d
                         THEN RecreateLenient(w, n, d, fault)
                         ELSE CacheAdd(w, n, d)
                ELSE RecreateLenient(w, n, d, fault)
    ELSE CacheAdd(create_collection(w, n, d, fault).w, n, d)

\* collection_info.vectors_count, or 0 when the lookup raises
StartId(w, n, fault) ==
    IF fault \in {"count", "info_validation", "info_validation_probe"}
          \/ n \notin DOMAIN w.client
    THEN 0
    ELSE Cardinality(DOMAIN w.client[n].points)

\* client.upsert of sub-batch b raises
UpsertFails(w, n, d, b, fault) ==
    \/ fault = "upsert"
    \/ fault = "batch0" /\ b = 0
    \/ fault = "batch1" /\ b = 1
    \/ n \notin DOMAIN w.client
    \/ w.client[n].size # d

\* an insertion that commits every sub-batch or none
CommittedAllOrNothing(w, n, k, d, fault) ==
    IF \E j \in 0..(k - 1) : UpsertFails(w, n, d, j \div BatchSize, fault)
    THEN {}
    ELSE 0..(k - 1)

\* positions (from 0) of the texts whose sub-batch is committed
CommittedPositions(w, n, k, d, fault) ==
    {j \in 0..(k - 1) : ~UpsertFails(w, n, d, j \div BatchSize, fault)}

\* the except branch of add_documents: keep texts and metadata only
FallbackStore(w, n, texts, cid) ==
    LET ts == IF n \in DOMAIN w.text_stores THEN w.text_stores[n] ELSE <<>>
        ms == IF n \in DOMAIN w.metadata_stores THEN w.metadata_stores[n] ELSE <<>>
    IN  [w EXCEPT
            !.text_stores = Put(@, n, ts \o texts),
            !.metadata_stores =
                Put(@, n, ms \o [i \in 1..Len(texts) |-> Meta(texts[i], cid)])]

add_documents_qdrant(w, n, texts, d, cid, fault) ==
    LET Upserted(old, start_id, ids) ==
            [id \in (DOMAIN old) \cup ids |->
                IF id \in ids
                THEN PointStruct(texts[id - start_id + 1], d, cid)
                ELSE old[id]]
        Insert(w1, start_id, ok) ==
            IF ok = {}
            THEN FallbackStore(w1, n, texts, cid)
            ELSE [w1 EXCEPT !.client[n].points =
                     Upserted(@, start_id, {start_id + j : j \in ok})]
        Checked(w1) ==
            Insert(w1, StartId(w1, n, fault),
                   CommittedPositions(w1, n, Len(texts), d, fault))
    IN  Checked(EnsureDimension(w, n, d, fault))

add_documents_faiss(w, n, texts, d, cid, fault) ==
    LET Saved(w2) ==
            IF fault = "save" THEN w2
            ELSE [w2 EXCEPT !.disk =
                     Put(@, n, [index |-> w2.indexes[n],
                                metadata |-> w2.metadata_stores[n],
                                texts |-> w2.text_stores[n]])]
        Added(w1) ==
            IF w1.indexes[n].d # d
            THEN FallbackStore(w1, n, texts, cid)
            ELSE Saved([w1 EXCEPT
                          !.indexes[n].vecs = @ \o texts,
                          !.metadata_stores[n] =
                              @ \o [i \in 1..Len(texts) |-> Meta(texts[i], cid)],
                          !.text_stores[n] = @ \o texts])
    IN  Added(IF n \notin DOMAIN w.indexes
              THEN create_collection(w, n, d, fault).w ELSE w)

\* returns the service after the call; the call itself always returns True
add_documents(w, n, texts, d, cid, fault) ==
    IF w.mode = "qdrant" THEN add_documents_qdrant(w, n, texts, d, cid, fault)
    ELSE IF w.mode = "faiss" THEN add_documents_faiss(w, n, texts, d, cid, fault)
    ELSE FallbackStore(w, n, texts, cid)

(***************************************************************************)
(* VectorDBService._fallback_text_search                                   *)
(* The first min(top_k, len) stored texts; an entry whose metadata does    *)
(* not carry the filter's value is skipped.                                *)
(***************************************************************************)
MatchesFilter(meta, filter) == filter = NoFilter \/ meta.chatbot_id = filter

_fallback_text_search(w, n, top_k, filter) ==
    IF n \notin DOMAIN w.text_stores \/ w.text_stores[n] = <<>> THEN <<>>
    ELSE LET texts == w.text_stores[n]
             m == Min(top_k, Len(texts))
             hasMeta(i) == n \in DOMAIN w.metadata_stores
                              /\ i <= Len(w.metadata_stores[n])
             cand == [i \in 1..m |->
                        IF hasMeta(i)
                        THEN [keep |-> MatchesFilter(w.metadata_stores[n][i], filter),
                              text |-> w.metadata_stores[n][i].text]
                        ELSE [keep |-> TRUE, text |-> texts[i]]]
             Keep(c) == c.keep
             kept == SelectSeq(cand, Keep)
         IN  [i \in 1..Len(kept) |-> kept[i].text]

(***************************************************************************)
(* VectorDBService.search                                                  *)
(* The query is a vector of dimension qdim near text q; similarity is the  *)
(* distance of a stored text to q.  fault = "search": the backend search   *)
(* call raises (connection failure).                                       *)
(***************************************************************************)
RECURSIVE Nearest(_, _, _, _)
\* the k elements of S nearest to q, nearest first; key[x] is x's text
Nearest(S, k, q, key) ==
    IF k = 0 \/ S = {} THEN <<>>
    ELSE LET x == CHOOSE a \in S : \A b \in S :
                     \/ Abs(key[a] - q) < Abs(key[b] - q)
                     \/ Abs(key[a] - q) = Abs(key[b] - q) /\ a <= b
         IN  <<x>> \o Nearest(S \ {x}, k - 1, q, key)

\* err: a backend call raised inside search
SearchReturn(items, via) ==
    [exc |-> FALSE, items |-> items, via |-> via, err |-> via = "fallback"]
SearchRaise == [exc |-> TRUE, items |-> <<>>, via |-> "none", err |-> TRUE]

search_qdrant(w, n, qdim, q, top_k, filter, fault) ==
    IF n \notin w.collections THEN SearchReturn(<<>>, "absent")
    ELSE IF fault = "search" \/ n \notin DOMAIN w.client THEN SearchRaise
    ELSE IF w.client[n].size # qdim
         THEN SearchReturn(_fallback_text_search(w, n, top_k, filter), "fallback")
    ELSE LET pts == w.client[n].points
             cand == {id \in DOMAIN pts : MatchesFilter(pts[id], filter)}
             hits == Nearest(cand, top_k, q, [id \in cand |-> pts[id].text])
         IN  SearchReturn([i \in 1..Len(hits) |-> pts[hits[i]].text], "vector")

search_faiss(w, n, qdim, q, top_k, filter, fault) ==
    IF n \notin DOMAIN w.indexes THEN SearchReturn(<<>>, "absent")
    ELSE LET ix == w.indexes[n]
             ntotal == Len(ix.vecs)
         IN  IF ntotal = 0 \/ ix.d # qdim \/ fault = "search"
                   \/ n \notin DOMAIN w.metadata_stores
             THEN SearchReturn(_fallback_text_search(w, n, top_k, filter), "fallback")
             ELSE LET ms == w.metadata_stores[n]
                      hits == Nearest(1..ntotal, Min(top_k, ntotal), q,
                                      [i \in 1..ntotal |-> ix.vecs[i]])
                      Keep(i) == i <= Len(ms) /\ MatchesFilter(ms[i], filter)
                      kept == SelectSeq(hits, Keep)
                  IN  SearchReturn([i \in 1..Len(kept) |-> ms[kept[i]].text], "vector")

\* the body of the outer try; in text-only mode self.indexes does not exist
search_try(w, n, qdim, q, top_k, filter, fault) ==
    IF w.mode = "qdrant" THEN search_qdrant(w, n, qdim, q, top_k, filter, fault)
    ELSE IF w.mode = "faiss" THEN search_faiss(w, n, qdim, q, top_k, filter, fault)
    ELSE SearchRaise

\* a handler that lets the error out
search_except_reraise(w, n, top_k, filter) ==
    [kind |-> "raised", items |-> <<>>, via |-> "none", err |-> TRUE]

\* the outer "except Exception" of search
search_except(w, n, top_k, filter) ==
    [kind |-> "list", items |-> _fallback_text_search(w, n, top_k, filter),
     via |-> "fallback", err |-> TRUE]

search(w, n, qdim, q, top_k, filter, fault) ==
    LET Caught(r) ==
            IF r.exc THEN search_except(w, n, top_k, filter)
            ELSE [kind |-> "list", items |-> r.items, via |-> r.via, err |-> r.err]
    IN  Caught(search_try(w, n, qdim, q, top_k, filter, fault))

(***************************************************************************)
(* VectorDBService.delete_collection                                       *)
(***************************************************************************)
delete_collection(w, n, fault) ==
    IF w.mode = "qdrant" THEN
        IF n \in w.collections /\ fault = "delete"
        THEN [w |-> w, ret |-> FALSE]
        ELSE [w |-> [w EXCEPT
                        !.client = IF n \in w.collections THEN Drop(@, n) ELSE @,
                        !.collections = @ \ {n},
                        !.metadata_stores = Drop(@, n),
                        !.text_stores = Drop(@, n)],
              ret |-> TRUE]
    ELSE IF w.mode = "faiss" THEN
        IF n \in DOMAIN w.indexes
        THEN IF n \notin DOMAIN w.metadata_stores
             THEN [w |-> [w EXCEPT !.indexes = Drop(@, n)], ret |-> FALSE]
             ELSE [w |-> [w EXCEPT
                             !.indexes = Drop(@, n),
                             !.metadata_stores = Drop(@, n),
                             !.text_stores = Drop(@, n)],
                   ret |-> TRUE]
        ELSE [w |-> w, ret |-> TRUE]
    ELSE [w |-> w, ret |-> FALSE]

(***************************************************************************)
(* VectorDBService.get_collection_info                                     *)
(***************************************************************************)
InfoAbsent == [exists |-> FALSE, points_count |-> 0]

get_collection_info(w, n, fault) ==
    IF w.mode = "qdrant" THEN
        IF n \in w.collections THEN
            IF fault \in {"info_validation", "info_validation_probe"} THEN
                IF fault = "info_validation_probe" \/ n \notin DOMAIN w.client
                THEN InfoAbsent
                ELSE [exists |-> TRUE, points_count |-> 0]
            ELSE IF fault = "info_other" \/ n \notin DOMAIN w.client THEN InfoAbsent
            ELSE [exists |-> TRUE,
                  points_count |-> Cardinality(DOMAIN w.client[n].points)]
        ELSE InfoAbsent
    ELSE IF w.mode = "faiss" THEN
        IF n \in DOMAIN w.indexes
        THEN [exists |-> TRUE, points_count |-> Len(w.indexes[n].vecs)]
        ELSE IF n \in DOMAIN w.text_stores
        THEN [exists |-> TRUE, points_count |-> Len(w.text_stores[n])]
        ELSE InfoAbsent
    ELSE InfoAbsent

(***************************************************************************)
(* EmbeddingService: the provider fixes the dimension of every embedding.  *)
(***************************************************************************)
Providers == {"together", "fallback"}

get_embedding_dimension(p) ==
    IF p = "together" THEN DimTogether
    ELSE IF p = "openai" THEN DimOpenAI
    ELSE IF p = "cohere" THEN DimCohere
    ELSE DimFallback

(***************************************************************************)
(* EmbeddingService.get_embeddings.  A vector is known by who made it and  *)
(* from what: the provider's model from the text, or numpy's generator     *)
(* from a seed.  The seed is md5(text) or hash(text), and hash(text)       *)
(* depends on the hash seed of the Python process.  bad: the positions of  *)
(* the texts that make a request that carries them fail.                   *)
(***************************************************************************)
\* np.random.seed(seed); np.random.random(dim), normalised
RandomVector(fn, text, salt, dim) ==
    [kind |-> "fallback", fn |-> fn, text |-> text, salt |-> salt, dim |-> dim]

ProviderVector(p, text) ==
    [kind |-> "provider", fn |-> p, text |-> text, salt |-> 0,
     dim |-> get_embedding_dimension(p)]

_generate_fallback_embeddings(p, texts) ==
    [i \in DOMAIN texts |->
        RandomVector("md5", texts[i], 0, get_embedding_dimension(p))]

\* one request for all the texts; when it fails, the fallback for all of them
_generate_openai_embeddings(p, texts, bad) ==
    IF bad # {} THEN _generate_fallback_embeddings(p, texts)
    ELSE [i \in DOMAIN texts |-> ProviderVector(p, texts[i])]

\* one request per batch; when it fails, vectors seeded with hash(text) for
\* the texts of that batch
_generate_together_embeddings(texts, bad, hashseed) ==
    LET batch(i) == (i - 1) \div EmbedBatchSize
        failed(i) == \E j \in bad : batch(j) = batch(i)
    IN  [i \in DOMAIN texts |->
            IF failed(i)
            THEN RandomVector("hash", texts[i], hashseed, DimTogether)
            ELSE ProviderVector("together", texts[i])]

get_embeddings(p, texts, bad, hashseed) ==
    IF texts = <<>> THEN <<>>
    ELSE IF p = "together" THEN _generate_together_embeddings(texts, bad, hashseed)
    ELSE IF p \in {"openai", "cohere", "sentence-transformers"}
    THEN _generate_openai_embeddings(p, texts, bad)
    ELSE _generate_fallback_embeddings(p, texts)

(***************************************************************************)
(* Documents and chunks.  A document is [id, kind]: a "long" text gives    *)
(* one chunk, a "short" text (under min_chunk_size) gives none, and a      *)
(* "bad" one carries a text that is not a string.  Texts are named by the  *)
(* id of their document.                                                   *)
(***************************************************************************)
\* A piece of a cleaned text is [start, len]: its offset and its length.
\* "for i in range(0, len, chunk_size - chunk_overlap)": the windows of a
\* piece, those shorter than min_chunk_size left out
Windows(s) ==
    LET step == ChunkSize - ChunkOverlap
        all == [k \in 1..((s.len + step - 1) \div step) |->
                   [start |-> s.start + (k - 1) * step,
                    len |-> Min(ChunkSize, s.len - (k - 1) * step)]]
        Kept(c) == c.len >= MinChunkSize
    IN  SelectSeq(all, Kept)

\* the loop of chunk_text over the sentences, and the last flush
RECURSIVE chunk_sentences(_, _, _, _)
chunk_sentences(sentences, chunks, current_chunk, current_length) ==
    LET \* " ".join(current_chunk)
        Joined == [start |-> current_chunk[1].start,
                   len |-> current_length + Len(current_chunk) - 1]
        Flushed == IF current_chunk # <<>> /\ Joined.len >= MinChunkSize
                   THEN chunks \o <<Joined>> ELSE chunks
    IN  IF sentences = <<>> THEN Flushed
        ELSE IF Head(sentences).len > ChunkSize
        THEN chunk_sentences(Tail(sentences),
                 (IF current_chunk # <<>> THEN chunks \o <<Joined>> ELSE chunks)
                     \o Windows(Head(sentences)),
                 <<>>, 0)
        ELSE IF current_length + Head(sentences).len > ChunkSize
        THEN chunk_sentences(Tail(sentences), Flushed, <<Head(sentences)>>,
                             Head(sentences).len)
        ELSE chunk_sentences(Tail(sentences), chunks,
                             current_chunk \o <<Head(sentences)>>,
                             current_length + Head(sentences).len)

\* chunk_text on the cleaned text made of sentences of the lengths lens, a
\* space between two sentences; tokenized: sent_tokenize worked
chunk_text_sentences(lens, tokenized) ==
    LET RECURSIVE Offset(_)
        Offset(k) == IF k = 1 THEN 0 ELSE Offset(k - 1) + lens[k - 1] + 1
    IN  IF lens = <<>> THEN <<>>
        ELSE IF tokenized
        THEN chunk_sentences([k \in DOMAIN lens |->
                                 [start |-> Offset(k), len |-> lens[k]]],
                             <<>>, <<>>, 0)
        ELSE Windows([start |-> 0,
                      len |-> Offset(Len(lens)) + lens[Len(lens)]])

\* chunk_text on a document of the model
chunk_text(doc) == IF doc.kind = "long" THEN <<doc.id>> ELSE <<>>

RECURSIVE process_documents(_)
process_documents(docs) ==
    IF docs = <<>> THEN <<>>
    ELSE chunk_text(Head(docs)) \o process_documents(Tail(docs))

\* preprocess_and_index_data: (success, texts indexed); ran = the vector
\* database was written
preprocess_and_index_data(w, n, docs, dim, fault) ==
    LET Index(texts) ==
            [w |-> add_documents(create_collection(w, n, dim, fault).w, n, texts,
                                 dim, NoFilter, fault),
             ok |-> TRUE, ran |-> TRUE, texts |-> texts]
        Texts(chunks) == IF chunks = <<>> THEN <<PlaceholderText>> ELSE chunks
    IN  IF \E i \in DOMAIN docs : docs[i].kind = "bad"
        THEN [w |-> w, ok |-> FALSE, ran |-> FALSE, texts |-> <<>>]
        ELSE IF docs = <<>>
        THEN [w |-> w, ok |-> TRUE, ran |-> FALSE, texts |-> <<>>]
        ELSE Index(Texts(process_documents(docs)))

(***************************************************************************)
(* cache_utils.  A cache is [redis_client, redis, mem]; an entry is        *)
(* [value, expires].  rdown: the Redis calls of this request raise.        *)
(***************************************************************************)
RECURSIVE JoinColon(_)
JoinColon(parts) ==
    IF Len(parts) = 1 THEN parts[1]
    ELSE parts[1] \o ":" \o JoinColon(Tail(parts))

IsNotNone(a) == a # PyNone

generate_cache_key(prefix, args) ==
    LET key_str == JoinColon(<<prefix>> \o SelectSeq(args, IsNotNone))
    IN  IF Len(key_str) > KeyMaxLen
        THEN prefix \o ":hash:" \o key_str
        ELSE key_str

startswith(s, prefix) ==
    Len(s) >= Len(prefix) /\ SubSeq(s, 1, Len(prefix)) = prefix

RedisHas(c, key, t) == key \in DOMAIN c.redis /\ c.redis[key].expires > t

cache_get(c, key, t, rdown) ==
    IF c.redis_client /\ ~rdown /\ RedisHas(c, key, t)
    THEN [c |-> c, hit |-> TRUE, value |-> c.redis[key].value]
    ELSE IF key \in DOMAIN c.mem THEN
        IF c.mem[key].expires < t
        THEN [c |-> [c EXCEPT !.mem = Drop(@, key)], hit |-> FALSE, value |-> PyNone]
        ELSE [c |-> c, hit |-> TRUE, value |-> c.mem[key].value]
    ELSE [c |-> c, hit |-> FALSE, value |-> PyNone]

cache_set(c, key, value, ttl, t, rdown) ==
    LET Cleaned(mem1) ==
            IF Cardinality(DOMAIN mem1) > InMemoryLimit
            THEN [k \in {x \in DOMAIN mem1 : ~(mem1[x].expires < t)} |-> mem1[k]]
            ELSE mem1
    IN  IF c.redis_client /\ ~rdown
        THEN [c EXCEPT !.redis = Put(@, key, [value |-> value, expires |-> t + ttl])]
        ELSE [c EXCEPT !.mem =
                 Cleaned(Put(@, key, [value |-> value, expires |-> t + ttl]))]

cache_invalidate(c, key_prefix, rdown) ==
    LET Keep(store) == [k \in {x \in DOMAIN store : ~startswith(x, key_prefix)}
                           |-> store[k]]
    IN  [c EXCEPT !.redis = IF c.redis_client /\ ~rdown THEN Keep(@) ELSE @,
                  !.mem = Keep(@)]

cache_delete(c, key, rdown) ==
    [c EXCEPT !.redis = IF c.redis_client /\ ~rdown THEN Drop(@, key) ELSE @,
              !.mem = Drop(@, key)]

(***************************************************************************)
(* The answer pipeline (nlp_utils_enhanced).                               *)
(* env = [fault, llm, conf, fb] is what the collaborators do during one    *)
(* request: the fault that strikes, whether the LLM client is configured   *)
(* ("up"/"down"), the score calculate_response_confidence gives, and what  *)
(* the fallback strategy meets: partial matches, nothing, or an exception. *)
(***************************************************************************)
CONFIDENCE_THRESHOLDS == [HIGH |-> ThresholdHigh, MEDIUM |-> ThresholdMedium,
                          LOW |-> ThresholdLow, VERY_LOW |-> ThresholdVeryLow]

GreetingWords == {"hi", "hello", "hey", "greetings", "good morning",
                  "good afternoon", "good evening"}

GreetingAnswer == "Hello! I'm your AI assistant. How can I help you today?"
NoContentAnswer == "I don't have any content to answer questions at the moment."
IndexFailedMessage == "Failed to process and index data"
ApologyAnswer == "I apologize, but I encountered an issue while processing your question."
NotEnoughAnswer == "I don't have enough information to answer that question."

\* question.lower().strip(), on the questions of the model
lower_strip(question) == IF question = "Hi " THEN "hi" ELSE question

IsGreeting(question) ==
    LET question_lower == lower_strip(question)
    IN  \/ \E greeting \in GreetingWords : question_lower = greeting
        \/ \E greeting \in GreetingWords : startswith(question_lower, greeting)
        \/ Len(question_lower) < ShortQuestionLen

\* response_formatter.format_response, general question type
format_response(question, answer, confidence) ==
    [answer |-> "[general] " \o answer, confidence |-> confidence]

\* the conversation_history argument inside a cache key (None is left out)
HistArg(history) == IF history = <<>> THEN PyNone ELSE ToString(history)

generate_fallback_answer(question, context) ==
    IF context = <<>> THEN NotEnoughAnswer
    ELSE "Based on the information available: " \o ToString(context[1])

\* @cached('context'): embeds the question and searches, first with the
\* chatbot_id filter and then without it
retrieve_relevant_context(w, c, t, question, n, dim, fault) ==
    LET Unfiltered(r1) ==
            IF r1.items = <<>>
            THEN search(w, n, dim, QueryPoint, RetrieveTopK, NoFilter, fault)
            ELSE r1
        Stored(key, g, r) ==
            [c |-> cache_set(g.c, key, r.items, VECTOR_SEARCH_TTL, t,
                             fault = "redis"),
             chunks |-> r.items, calls |-> {"embed", "search"}]
        Wrapped(key, g) ==
            IF g.hit THEN [c |-> g.c, chunks |-> g.value, calls |-> {}]
            ELSE Stored(key, g, Unfiltered(
                     search(w, n, dim, QueryPoint, RetrieveTopK, n, fault)))
        Keyed(key) == Wrapped(key, cache_get(c, key, t, fault = "redis"))
    IN  Keyed(generate_cache_key("context",
                  <<question, n, "top_k:" \o ToString(RetrieveTopK)>>))

\* @cached('llm_answer')
generate_answer_with_llm(c, t, question, context, history, env) ==
    LET Stored(key, g, answer) ==
            [c |-> cache_set(g.c, key, answer, LLM_RESPONSE_TTL, t,
                             env.fault = "redis"),
             answer |-> answer, calls |-> {"llm"}]
        Wrapped(key, g) ==
            IF g.hit THEN [c |-> g.c, answer |-> g.value, calls |-> {}]
            ELSE Stored(key, g,
                     IF env.llm = "up" /\ env.fault # "llm"
                     THEN IF context = <<>> THEN NotEnoughAnswer
                          ELSE "LLM answer from " \o ToString(context)
                     ELSE generate_fallback_answer(question, context))
        Keyed(key) == Wrapped(key, cache_get(c, key, t, env.fault = "redis"))
    IN  Keyed(generate_cache_key("llm_answer",
                  <<question, ToString(context), HistArg(history)>>))

\* Scores are kept in sixtieths of a point, so that thirds of chunks and the
\* fractions of one to five question words stay whole: 100 points are 6000.
\* nchunks: len(relevant_chunks); qwords: distinct words of the question;
\* overlap: those of them found in the chunks; awords: words of the answer;
\* markers: uncertainty markers in the answer; specific: question words of
\* more than three letters; raises: an operand is not a string
calculate_response_confidence_unclamped(nchunks, qwords, overlap, awords, markers, specific, raises) ==
    LET chunk_factor == Min(nchunks, 3) * 500
        semantic_factor == IF qwords = 0 THEN 0 ELSE (overlap * 1800) \div qwords
        answer_length_factor == Min(awords, 20) * 60
        uncertainty_penalty == markers * 300
        question_specificity == Min(specific, 5) * 300
        base_confidence == chunk_factor + semantic_factor
                             + answer_length_factor + question_specificity
    IN  IF nchunks = 0 THEN 0
        ELSE IF raises THEN 3000
        ELSE Min(6000, base_confidence - uncertainty_penalty)

calculate_response_confidence(nchunks, qwords, overlap, awords, markers, specific, raises) ==
    LET chunk_factor == Min(nchunks, 3) * 500
        semantic_factor == IF qwords = 0 THEN 0 ELSE (overlap * 1800) \div qwords
        answer_length_factor == Min(awords, 20) * 60
        uncertainty_penalty == markers * 300
        question_specificity == Min(specific, 5) * 300
        base_confidence == chunk_factor + semantic_factor
                             + answer_length_factor + question_specificity
        capped == Min(6000, base_confidence - uncertainty_penalty)
    IN  IF nchunks = 0 THEN 0
        ELSE IF raises THEN 3000
        ELSE IF capped < 0 THEN 0 ELSE capped

\* find_partial_matches on one passage: combined_score * 60 in sixtieths of a
\* point, ratio being SequenceMatcher's ratio in tenths; -1 when the passage
\* stays under the threshold of 0.3
find_partial_matches(qwords, overlap, ratio) ==
    LET word_overlap == IF qwords = 0 THEN 0 ELSE (overlap * 2160) \div qwords
        combined_score == ratio * 144 + word_overlap
    IN  IF combined_score >= 1080 THEN combined_score ELSE -1

\* the confidence and the response type generate_enhanced_fallback_response
\* attaches, from the score of the basic answer and the best partial match
enhanced_fallback_confidence(nchunks, score, all_content, partial, keywords, raises) ==
    IF raises
    THEN [confidence |-> BasicFallbackConfidence * 60, response_type |-> "basic_fallback"]
    ELSE IF nchunks > 0 /\ score >= CONFIDENCE_THRESHOLDS.HIGH * 60
    THEN [confidence |-> score, response_type |-> "direct_answer"]
    ELSE IF nchunks > 0 /\ score >= CONFIDENCE_THRESHOLDS.MEDIUM * 60
    THEN [confidence |-> score, response_type |-> "partial_answer_with_disclaimer"]
    ELSE IF all_content /\ partial >= 0
    THEN [confidence |-> partial, response_type |-> "partial_match"]
    ELSE IF keywords
    THEN [confidence |-> AlternativesConfidence * 60,
          response_type |-> "alternatives_and_clarification"]
    ELSE [confidence |-> RephrasingConfidence * 60,
          response_type |-> "rephrasing_suggestion"]

\* extract_topic_keywords: the words of three letters or more that are not
\* stop words, on the questions of the model
extract_topic_keywords(question) ==
    IF question = "refund policy?" THEN <<"refund", "policy">> ELSE <<>>

UncertaintyNote == " *Please note: This information is based on available content and may not be complete.*"

\* @cached('enhanced_fallback').  env.fb = "partial_match": find_partial_matches
\* finds a passage of the corpus; env.fb = "basic_fallback": the strategy raises
generate_enhanced_fallback_response(c, t, question, chunks, all_content, history, env) ==
    LET Strategy(basic_answer) ==
            IF chunks # <<>> /\ env.conf >= CONFIDENCE_THRESHOLDS.HIGH
            THEN [answer |-> basic_answer, confidence |-> env.conf,
                  strategy_level |-> 1, response_type |-> "direct_answer"]
            ELSE IF chunks # <<>> /\ env.conf >= CONFIDENCE_THRESHOLDS.MEDIUM
            THEN [answer |-> basic_answer \o UncertaintyNote, confidence |-> env.conf,
                  strategy_level |-> 2,
                  response_type |-> "partial_answer_with_disclaimer"]
            ELSE IF env.fb = "basic_fallback"
            THEN [answer |-> "I'm having trouble finding the specific information.",
                  confidence |-> BasicFallbackConfidence,
                  strategy_level |-> 4, response_type |-> "basic_fallback"]
            ELSE IF env.fb = "partial_match" /\ all_content # <<>>
            THEN [answer |-> "I found some related information",
                  confidence |-> PartialMatchConfidence,
                  strategy_level |-> 1, response_type |-> "partial_match"]
            ELSE IF extract_topic_keywords(question) # <<>>
            THEN [answer |-> "I want to help you find the right information.",
                  confidence |-> AlternativesConfidence,
                  strategy_level |-> 2,
                  response_type |-> "alternatives_and_clarification"]
            ELSE [answer |-> "Could you rephrase your question?",
                  confidence |-> RephrasingConfidence,
                  strategy_level |-> 3, response_type |-> "rephrasing_suggestion"]
        Stored(key, c1, resp, calls) ==
            [c |-> cache_set(c1, key, resp, ANSWER_CONFIDENCE_TTL, t,
                             env.fault = "redis"),
             resp |-> resp, calls |-> calls]
        WithBasic(key, basic) ==
            Stored(key, basic.c, Strategy(basic.answer), basic.calls)
        Wrapped(key, g) ==
            IF g.hit THEN [c |-> g.c, resp |-> g.value, calls |-> {}]
            ELSE IF chunks # <<>>
            THEN WithBasic(key, generate_answer_with_llm(g.c, t, question, chunks,
                                                         history, env))
            ELSE Stored(key, g.c, Strategy(PyNone), {})
        Keyed(key) == Wrapped(key, cache_get(c, key, t, env.fault = "redis"))
    IN  Keyed(generate_cache_key("enhanced_fallback",
                  <<question, ToString(chunks), ToString(all_content),
                    HistArg(history)>>))

\* parse_chatbot_data: None when the data is not a dict or a list
parse_chatbot_data(data) ==
    IF data.valid THEN [ok |-> TRUE, docs |-> data.sources]
    ELSE [ok |-> FALSE, docs |-> <<>>]

\* texts gathered for partial matching
AllContent(docs) ==
    LET HasText(d) == d.kind # "bad"
        kept == SelectSeq(docs, HasText)
    IN  [i \in 1..Len(kept) |-> kept[i].id]

AnswerKey(n, question, history) ==
    generate_cache_key("answer",
        <<n, question, IF history # <<>> THEN ToString(history) ELSE "None">>)

(***************************************************************************)
(* get_enhanced_answer.  The result carries the service and the cache as   *)
(* the call leaves them, the answer, and what the call did: the            *)
(* collaborators it called, whether the answer came from the answer cache, *)
(* and the answer-cache keys it wrote.                                     *)
(***************************************************************************)
NotIndexed == [ok |-> TRUE, ran |-> FALSE, texts |-> <<>>]

\* what a call that never reaches the pipeline, or a stage of it, reports
NoPipeline == [calls |-> {}, via |-> "none", wrote |-> {}, ran |-> FALSE,
               texts |-> <<>>, confidence |-> NoConfidence, inner |-> "not_called",
               chunks |-> <<>>, draft |-> PyNone, response_type |-> "none"]

get_enhanced_answer_try(w, c, t, data, question, n, history, dim, env) ==
    LET rdown == env.fault = "redis"
        Return(w2, c2, answer, calls) ==
            [exc |-> FALSE, w |-> w2, c |-> c2, answer |-> answer,
             confidence |-> NoConfidence, calls |-> calls, via |-> "computed",
             wrote |-> {}, ran |-> FALSE, texts |-> <<>>] @@ NoPipeline
        \* format_response, cache['set'](cache_key, ...), return final_answer
        Done(cache_key, idx, c2, answer, confidence, calls) ==
            [exc |-> FALSE, w |-> idx.w,
             c |-> cache_set(c2, cache_key,
                             format_response(question, answer, confidence).answer,
                             LLM_RESPONSE_TTL, t, rdown),
             answer |-> format_response(question, answer, confidence).answer,
             confidence |-> confidence, calls |-> calls, via |-> "computed",
             wrote |-> {cache_key}, ran |-> idx.ran, texts |-> idx.texts,
             chunks |-> <<>>, draft |-> PyNone, response_type |-> "main_answer"]
        Drafted(r, chunks, draft) == [r EXCEPT !.chunks = chunks, !.draft = draft]
        FellBack(cache_key, idx, calls, fb) ==
            [Done(cache_key, idx, fb.c, fb.resp.answer, fb.resp.confidence,
                  calls \cup fb.calls)
             EXCEPT !.response_type = fb.resp.response_type]
        Fallback(cache_key, idx, c2, chunks, all_content, calls) ==
            FellBack(cache_key, idx, calls,
                     generate_enhanced_fallback_response(
                         c2, t, question, chunks, all_content, history, env))
        Generated(cache_key, idx, rc, all_content, calls, llm) ==
          Drafted(
            IF env.conf < CONFIDENCE_THRESHOLDS.MEDIUM
            THEN Fallback(cache_key, idx, llm.c, rc.chunks, all_content,
                          calls \cup llm.calls)
            ELSE Done(cache_key, idx, llm.c, llm.answer, env.conf,
                      calls \cup llm.calls),
            rc.chunks, llm.answer)
        Retrieved(cache_key, idx, all_content, calls, rc) ==
            IF question = PyNone
            THEN [exc |-> TRUE, w |-> idx.w, c |-> rc.c, answer |-> PyNone,
                  confidence |-> NoConfidence, calls |-> calls \cup rc.calls,
                  via |-> "computed", wrote |-> {}, ran |-> idx.ran,
                  texts |-> idx.texts] @@ NoPipeline
            ELSE IF IsGreeting(question)
            THEN Done(cache_key, idx, rc.c, GreetingAnswer, GreetingConfidence,
                      calls \cup rc.calls)
            ELSE IF rc.chunks = <<>>
            THEN Fallback(cache_key, idx, rc.c, <<>>, all_content,
                          calls \cup rc.calls)
            ELSE IF env.llm = "up"
            THEN Generated(cache_key, idx, rc, all_content, calls \cup rc.calls,
                     generate_answer_with_llm(rc.c, t, question, rc.chunks,
                                              history, env))
            ELSE Drafted(
                     IF env.conf < CONFIDENCE_THRESHOLDS.MEDIUM
                     THEN Fallback(cache_key, idx, rc.c, rc.chunks, all_content,
                                   calls \cup rc.calls)
                     ELSE Done(cache_key, idx, rc.c,
                               generate_fallback_answer(question, rc.chunks),
                               env.conf, calls \cup rc.calls),
                     rc.chunks, generate_fallback_answer(question, rc.chunks))
        Indexed(cache_key, g, parsed, idx) ==
            IF ~idx.ok
            THEN Return(idx.w, g.c, IndexFailedMessage,
                        {"get_collection_info", "index"})
            ELSE Retrieved(cache_key, idx, AllContent(parsed.docs),
                     {"get_collection_info"}
                         \cup (IF idx.ran THEN {"index"} ELSE {}),
                     retrieve_relevant_context(idx.w, g.c, t, question, n, dim,
                                               env.fault))
        Inspected(cache_key, g, parsed, info) ==
            Indexed(cache_key, g, parsed,
                IF ~info.exists \/ info.points_count = 0
                THEN preprocess_and_index_data(w, n, parsed.docs, dim, env.fault)
                ELSE [w |-> w] @@ NotIndexed)
        Parsed(cache_key, g, parsed) ==
            IF ~parsed.ok THEN Return(w, g.c, NoContentAnswer, {})
            ELSE Inspected(cache_key, g, parsed,
                           get_collection_info(w, n, env.fault))
        Looked(cache_key, g) ==
            IF g.hit
            THEN [exc |-> FALSE, w |-> w, c |-> g.c, answer |-> g.value,
                  confidence |-> NoConfidence, calls |-> {},
                  via |-> "pipeline_cache", wrote |-> {}, ran |-> FALSE,
                  texts |-> <<>>] @@ NoPipeline
            ELSE Parsed(cache_key, g, parse_chatbot_data(data))
        Keyed(cache_key) == Looked(cache_key, cache_get(c, cache_key, t, rdown))
    IN  Keyed(AnswerKey(n, question, history))

\* the outer "except Exception" of get_enhanced_answer
get_enhanced_answer_except(r) ==
    [r EXCEPT !.exc = FALSE, !.answer = ApologyAnswer]

get_enhanced_answer(w, c, t, data, question, n, history, dim, env) ==
    LET Caught(r) == IF r.exc THEN get_enhanced_answer_except(r) ELSE r
    IN  Caught(get_enhanced_answer_try(w, c, t, data, question, n, history,
                                       dim, env))

(***************************************************************************)
(* ChatbotService.get_answer                                               *)
(***************************************************************************)
Falsy(x) == x \in {PyNone, ""}

ServiceKey(n, question) == generate_cache_key("chatbot_answer", <<n, question>>)

\* the last HistoryLimit rows of the conversation, oldest first
ConversationHistory(msgs, conversation_id) ==
    IF conversation_id \in DOMAIN msgs
    THEN LET rows == msgs[conversation_id]
         IN  SubSeq(rows, IF Len(rows) > HistoryLimit
                          THEN Len(rows) - HistoryLimit + 1 ELSE 1, Len(rows))
    ELSE <<>>

get_answer_try(w, c, msgs, uu, t, data, n, question, conversation_id, dim, env) ==
    LET rdown == env.fault = "redis"
        Stop(c2, uu1, exc, keys, answer) ==
            [exc |-> exc, w |-> w, c |-> c2, msgs |-> msgs, uu |-> uu1,
             keys |-> keys, answer |-> answer, out_conversation_id |-> PyNone]
            @@ NoPipeline
        Stored(conv, r) ==
            IF env.fault = "db_store" THEN msgs
            ELSE Put(msgs, conv,
                     (IF conv \in DOMAIN msgs THEN msgs[conv] ELSE <<>>)
                         \o <<[message |-> question, response |-> r.answer]>>)
        Answered(cache_key, conv, uu1, r) ==
            [exc |-> FALSE, w |-> r.w,
             c |-> IF Falsy(conv)
                   THEN cache_set(r.c, cache_key,
                                  [answer |-> r.answer, conversation_id |-> conv],
                                  ANSWER_TTL, t, rdown)
                   ELSE r.c,
             msgs |-> Stored(conv, r), uu |-> uu1,
             keys |-> {"answer", "conversation_id", "processing_time_ms"},
             answer |-> r.answer, out_conversation_id |-> conv,
             calls |-> r.calls, via |-> r.via,
             wrote |-> r.wrote \cup (IF Falsy(conv) THEN {cache_key} ELSE {}),
             ran |-> r.ran, texts |-> r.texts, confidence |-> r.confidence,
             inner |-> "str", chunks |-> r.chunks, draft |-> r.draft,
             response_type |-> r.response_type]
        Looked(cache_key, g, conv, uu1) ==
            IF g.hit
            THEN [exc |-> FALSE, w |-> w, c |-> g.c, msgs |-> msgs, uu |-> uu,
                  keys |-> {"answer", "conversation_id", "processing_time_ms"},
                  answer |-> g.value.answer,
                  out_conversation_id |-> g.value.conversation_id]
                 @@ [NoPipeline EXCEPT !.via = "service_cache"]
            ELSE IF n \notin Names \/ env.fault = "db_get"
            THEN Stop(g.c, uu, FALSE, {"error", "answer"},
                      "Sorry, this chatbot is not available.")
            ELSE IF env.fault = "db_query"
            THEN Stop(g.c, uu1, TRUE, {}, PyNone)
            ELSE Answered(cache_key, conv, uu1,
                     get_enhanced_answer(w, g.c, t, data, question, n,
                                         ConversationHistory(msgs, conv), dim, env))
        Keyed(cache_key) ==
            Looked(cache_key,
                   IF Falsy(conversation_id) THEN cache_get(c, cache_key, t, rdown)
                   ELSE [c |-> c, hit |-> FALSE, value |-> PyNone],
                   IF Falsy(conversation_id) THEN "u" \o ToString(uu + 1)
                   ELSE conversation_id,
                   IF Falsy(conversation_id) THEN uu + 1 ELSE uu)
    IN  Keyed(ServiceKey(n, question))

\* a handler that lets the error out of get_answer
get_answer_except_reraise(r) ==
    [r EXCEPT !.keys = {}]

\* the outer "except Exception" of get_answer
get_answer_except(r) ==
    [r EXCEPT !.exc = FALSE, !.keys = {"answer", "error"},
              !.answer = "I'm sorry, I encountered an error while processing your question."]

get_answer(w, c, msgs, uu, t, data, n, question, conversation_id, dim, env) ==
    LET Caught(r) == IF r.exc THEN get_answer_except(r) ELSE r
    IN  Caught(get_answer_try(w, c, msgs, uu, t, data, n, question,
                              conversation_id, dim, env))

(***************************************************************************)
(* ChatbotService.train_chatbot and update_chatbot_data.                   *)
(* Chatbot.data is [valid, sources]: valid = it parses to a dictionary.    *)
(***************************************************************************)
train_chatbot(w, c, t, data, n, docs, dim, env) ==
    LET rdown == env.fault = "redis"
        existing_sources == IF data.valid THEN data.sources ELSE <<>>
        IsNew(doc) == \A i \in DOMAIN existing_sources :
                          existing_sources[i].id # doc.id
        Trained(c1, p) ==
            IF ~p.ok
            THEN [ok |-> FALSE, w |-> p.w, c |-> c1, data |-> data,
                  ran |-> FALSE, texts |-> <<>>]
            ELSE [ok |-> TRUE, w |-> p.w, c |-> c1,
                  data |-> [valid |-> TRUE,
                            sources |-> existing_sources \o SelectSeq(docs, IsNew)],
                  ran |-> p.ran, texts |-> p.texts]
    IN  Trained(cache_invalidate(cache_delete(c, "chatbot:" \o n, rdown),
                                 "chatbot_answer:" \o n, rdown),
                preprocess_and_index_data(delete_collection(w, n, env.fault).w,
                                          n, docs, dim, env.fault))

update_chatbot_data(w, c, n, newdata, env) ==
    LET rdown == env.fault = "redis"
    IN  [w |-> delete_collection(w, n, env.fault).w,
         c |-> cache_delete(cache_invalidate(
                   cache_delete(c, "chatbot:" \o n, rdown),
                   "chatbot_answer:" \o n, rdown), "chatbot:" \o n, rdown),
         data |-> newdata]

(***************************************************************************)
(* should_suggest_ticket                                                   *)
(***************************************************************************)
should_suggest_ticket(confidence, strategy_level, consecutive_failures) ==
    /\ confidence < CONFIDENCE_THRESHOLDS.VERY_LOW
    /\ strategy_level >= LastResortLevel
    /\ consecutive_failures >= TicketAfterFailures

(***************************************************************************)
(* Initial values shared by the specifications below.                      *)
(***************************************************************************)
NoSearch == [called |-> FALSE, name |-> "t1", kind |-> "list", items |-> <<>>,
             via |-> "none", err |-> FALSE, top_k |-> 0, filter |-> NoFilter]

NoCall == [op |-> "none", chatbot_id |-> "t1", question |-> PyNone,
           conversation_id |-> PyNone, fault |-> "none", kind |-> "none",
           keys |-> {}, answer |-> PyNone, out_conversation_id |-> PyNone,
           ok |-> TRUE, conf |-> NoConfidence, fb |-> "none", llm |-> "up",
           corpus |-> <<>>, kinds |-> <<>>] @@ NoPipeline

IdleProcs == [pc |-> "off"]
IdleTicket == [confidence |-> 0, strategy_level |-> 0,
               consecutive_failures |-> 0, evaluated |-> FALSE, suggest |-> FALSE]

InitWorld(w) ==
    /\ mode = w.mode
    /\ collections = w.collections
    /\ client = w.client
    /\ indexes = w.indexes
    /\ disk = w.disk
    /\ text_stores = w.text_stores
    /\ metadata_stores = w.metadata_stores
    /\ collection_dimension_cache = w.collection_dimension_cache

\* nothing observed yet on the vector database
InitObs ==
    /\ added = [n \in Names |-> {}]
    /\ removed = [n \in Names |-> {}]
    /\ lastAddDim = [n \in Names |-> 0]
    /\ recreated = [n \in Names |-> FALSE]
    /\ searchRes = NoSearch

\* a new chatbot row (data = "{}"), no conversation, empty caches
InitRows ==
    /\ chatbot_data = [n \in Names |-> [valid |-> TRUE, sources |-> <<>>]]
    /\ messages = EmptyDict
    /\ nextUuid = 0
    /\ redis_store = EmptyDict
    /\ in_memory_cache = EmptyDict
    /\ in_memory_ttl = EmptyDict
    /\ now = 0
    /\ lastCall = NoCall
    /\ steps = 0

(***************************************************************************)
(* The service under any sequence of calls.  search does not change the    *)
(* service, so each search is explored as the last call of a run: the      *)
(* reachable pairs of service state and search outcome are the same as     *)
(* with searches in between.                                               *)
(***************************************************************************)
InitVS ==
    /\ \E m \in Modes : InitWorld(VectorDBService_init(m))
    /\ topLevelId \in BOOLEAN
    /\ nextText = 1
    /\ InitObs
    /\ provider = "together"
    /\ redis_client = FALSE
    /\ InitRows
    /\ trainer = IdleProcs
    /\ asker = IdleProcs
    /\ ticket = IdleTicket

AllFaults == QdrantAddFaults \cup FaissAddFaults \cup {"search"}
NoFaults == {"none"}

AddFaults == IF mode = "qdrant" THEN QdrantAddFaults
             ELSE IF mode = "faiss" THEN FaissAddFaults ELSE {"none"}
CreateFaults == IF mode = "qdrant" THEN {"none", "create"}
                ELSE IF mode = "faiss" THEN {"none", "load"} ELSE {"none"}
DeleteFaults == IF mode = "qdrant" THEN {"none", "delete"} ELSE {"none"}
SearchFaults == IF mode = "text" THEN {"none"} ELSE {"none", "search"}

\* Each call, with its fault drawn from F.
CreateCollectionUnder(F) ==
    \E n \in Names, size \in Dims, fault \in CreateFaults \cap F :
        /\ ~searchRes.called
        /\ SetWorld(create_collection(World, n, size, fault).w)
        /\ recreated' = [recreated EXCEPT ![n] = TRUE]
        /\ searchRes' = NoSearch
        /\ UNCHANGED <<topLevelId, nextText, added, removed, lastAddDim, restVars>>

AddDocumentsUnder(F) ==
    \E n \in Names, d \in Dims, k \in 1..MaxDocs, fault \in AddFaults \cap F :
        /\ ~searchRes.called
        /\ nextText + k - 1 <= MaxTexts
        /\ LET texts == [i \in 1..k |-> nextText + i - 1]
               cid == IF topLevelId THEN n ELSE NoFilter
           IN  /\ SetWorld(add_documents(World, n, texts, d, cid, fault))
               /\ added' = [added EXCEPT ![n] = @ \cup SeqRange(texts)]
        /\ nextText' = nextText + k
        /\ lastAddDim' = [lastAddDim EXCEPT ![n] = d]
        /\ searchRes' = NoSearch
        /\ UNCHANGED <<topLevelId, removed, recreated, restVars>>

DeleteCollectionUnder(F) ==
    \E n \in Names, fault \in DeleteFaults \cap F :
        /\ ~searchRes.called
        /\ SetWorld(delete_collection(World, n, fault).w)
        /\ removed' = [removed EXCEPT ![n] = added[n]]
        /\ recreated' = [recreated EXCEPT ![n] = FALSE]
        /\ searchRes' = NoSearch
        /\ UNCHANGED <<topLevelId, nextText, added, lastAddDim, restVars>>

SearchUnder(F) ==
    \E n \in Names, qdim \in Dims, q \in 1..MaxTexts, top_k \in 1..MaxTopK,
       filter \in Names \cup {NoFilter}, fault \in SearchFaults \cap F :
        /\ ~searchRes.called
        /\ searchRes' = [called |-> TRUE, name |-> n, top_k |-> top_k,
                         filter |-> filter]
                        @@ search(World, n, qdim, q, top_k, filter, fault)
        /\ UNCHANGED <<vsVars, topLevelId, nextText, added, removed, lastAddDim,
                       recreated, restVars>>

CreateCollection == CreateCollectionUnder(AllFaults)
AddDocuments == AddDocumentsUnder(AllFaults)
DeleteCollection == DeleteCollectionUnder(AllFaults)
Search == SearchUnder(AllFaults)

NextVS == CreateCollection \/ AddDocuments \/ DeleteCollection \/ Search

\* any sequence of calls, backend faults included
SpecVS == InitVS /\ [][NextVS]_vars

\* add_documents alone, call after call, with embeddings of the active
\* provider, while upserts of sub-batches fail
AddBatches ==
    \E n \in Names, d \in {get_embedding_dimension(provider)}, k \in 1..MaxDocs,
       fault \in (IF mode = "qdrant" THEN {"none", "batch0", "batch1", "upsert"}
                  ELSE {"none"}) :
        LET texts == [i \in 1..k |-> nextText + i - 1]
        IN  /\ nextText + k - 1 <= MaxTexts
            /\ SetWorld(add_documents(World, n, texts, d,
                                      IF topLevelId THEN n ELSE NoFilter, fault))
            /\ added' = [added EXCEPT ![n] = @ \cup SeqRange(texts)]
            /\ nextText' = nextText + k
            /\ lastAddDim' = [lastAddDim EXCEPT ![n] = d]
            /\ lastCall' = [NoCall EXCEPT !.op = "add_documents",
                                          !.chatbot_id = n, !.texts = texts,
                                          !.fault = fault]
            /\ UNCHANGED <<topLevelId, removed, recreated, searchRes, dbVars,
                           cacheVars, steps, procVars, ticket>>

SpecBatches == InitVS /\ [][AddBatches]_vars

CreateCollectionOk == CreateCollectionUnder(NoFaults)
AddDocumentsOk == AddDocumentsUnder(NoFaults)
DeleteCollectionOk == DeleteCollectionUnder(NoFaults)
SearchOk == SearchUnder(NoFaults)

NextVSOk == CreateCollectionOk \/ AddDocumentsOk \/ DeleteCollectionOk \/ SearchOk

\* any sequence of calls on a healthy backend: no backend call fails by itself
SpecVSOk == InitVS /\ [][NextVSOk]_vars

(***************************************************************************)
(* What a collection holds.                                                *)
(***************************************************************************)
\* dimensions of the points of n that a vector search can return
PrimaryDims(n) ==
    IF mode = "qdrant" THEN
        IF n \in DOMAIN client
        THEN {client[n].points[id].dim : id \in DOMAIN client[n].points}
        ELSE {}
    ELSE IF mode = "faiss" THEN
        IF n \in DOMAIN indexes /\ indexes[n].vecs # <<>> THEN {indexes[n].d} ELSE {}
    ELSE {}

\* texts of n held by the service: points, text store, metadata store
PointTexts(n) ==
    IF mode = "qdrant" THEN
        IF n \in collections /\ n \in DOMAIN client
        THEN {client[n].points[id].text : id \in DOMAIN client[n].points}
        ELSE {}
    ELSE IF n \in DOMAIN indexes THEN SeqRange(indexes[n].vecs) ELSE {}

StoreTexts(n) ==
    (IF n \in DOMAIN text_stores THEN SeqRange(text_stores[n]) ELSE {})
    \cup (IF n \in DOMAIN metadata_stores
          THEN {metadata_stores[n][i].text : i \in DOMAIN metadata_stores[n]}
          ELSE {})

(***************************************************************************)
(* The service layer under any sequence of requests.                       *)
(***************************************************************************)
ChatbotIds == Names \cup {"t0"}          \* "t0" has no Chatbot row
Questions == {"Hi ", "refund policy?", PyNone}
Conversations == {PyNone, "c1"}

Env(f, l, cf, fb) == [fault |-> f, llm |-> l, conf |-> cf, fb |-> fb]

AppFaults == {"redis", "db_get", "db_query", "db_store", "search", "upsert",
              "info_other", "llm", "delete"}

\* requests during which no collaborator fails
OkEnvs == {Env("none", "up", cf, "rephrasing") :
              cf \in {CONFIDENCE_THRESHOLDS.MEDIUM - 20,
                       CONFIDENCE_THRESHOLDS.HIGH + 20}}
          \cup {Env("none", "down", CONFIDENCE_THRESHOLDS.HIGH + 20, "rephrasing"),
                Env("none", "up", CONFIDENCE_THRESHOLDS.MEDIUM - 20, "partial_match")}
\* requests during which one collaborator fails
FaultEnvs == {Env(f, "up", CONFIDENCE_THRESHOLDS.HIGH + 20, "rephrasing") :
                 f \in AppFaults}
             \cup {Env("none", "up", CONFIDENCE_THRESHOLDS.MEDIUM - 20, "basic_fallback")}
AllEnvs == OkEnvs \cup FaultEnvs
Healthy == Env("none", "up", CONFIDENCE_THRESHOLDS.HIGH + 20, "rephrasing")

\* the two dictionaries of the in-memory cache, of a cache whose entries are
\* [value, expires]
MemValues(mem) == [k \in DOMAIN mem |-> mem[k].value]
MemExpiries(mem) == [k \in DOMAIN mem |-> mem[k].expires]

\* between two calls every key of in_memory_cache is a key of in_memory_ttl
CacheState == [redis_client |-> redis_client, redis |-> redis_store,
               mem |-> [k \in DOMAIN in_memory_cache |->
                           [value |-> in_memory_cache[k],
                            expires |-> in_memory_ttl[k]]]]

SetCache(c) ==
    /\ redis_client' = c.redis_client
    /\ redis_store' = c.redis
    /\ in_memory_cache' = MemValues(c.mem)
    /\ in_memory_ttl' = MemExpiries(c.mem)

\* the service layer before its first request
InitApp ==
    /\ \E m \in Modes : InitWorld(VectorDBService_init(m))
    /\ topLevelId = FALSE
    /\ nextText = 1
    /\ InitObs
    /\ provider = "together"
    /\ redis_client \in BOOLEAN
    /\ InitRows
    /\ trainer = IdleProcs
    /\ asker = IdleProcs
    /\ ticket = IdleTicket

\* POST /train: k new documents, long enough to give a chunk or not
TrainChatbot ==
    \E n \in Names, k \in 0..MaxDocs :
      \E kinds \in [1..k -> {"long", "short"}] :
        LET Commit(r) ==
                /\ SetWorld(r.w)
                /\ SetCache(r.c)
                /\ chatbot_data' = [chatbot_data EXCEPT ![n] = r.data]
                /\ lastCall' = [NoCall EXCEPT !.op = "train_chatbot",
                                              !.chatbot_id = n, !.ok = r.ok,
                                              !.ran = r.ran, !.texts = r.texts,
                                              !.kinds = kinds]
        IN  /\ steps < MaxSteps
            /\ nextText + k - 1 <= MaxTexts
            /\ Commit(train_chatbot(
                   World, CacheState, now, chatbot_data[n], n,
                   [i \in 1..k |-> [id |-> nextText + i - 1, kind |-> kinds[i]]],
                   get_embedding_dimension(provider), Healthy))
            /\ nextText' = nextText + k
            /\ steps' = steps + 1
            /\ UNCHANGED <<topLevelId, added, removed, lastAddDim, recreated,
                           searchRes, provider, messages, nextUuid, now,
                           procVars, ticket>>

\* data sent by the owner: not a dictionary, no source, a source whose text
\* is null
DataChoices == {[valid |-> FALSE, sources |-> <<>>],
                [valid |-> TRUE, sources |-> <<>>],
                [valid |-> TRUE, sources |-> <<[id |-> 0, kind |-> "bad"]>>]}

UpdateChatbotData ==
    \E n \in Names, newdata \in DataChoices :
        LET Commit(r) ==
                /\ SetWorld(r.w)
                /\ SetCache(r.c)
                /\ chatbot_data' = [chatbot_data EXCEPT ![n] = r.data]
        IN  /\ steps < MaxSteps
            /\ Commit(update_chatbot_data(World, CacheState, n, newdata, Healthy))
            /\ lastCall' = [NoCall EXCEPT !.op = "update_chatbot_data",
                                          !.chatbot_id = n]
            /\ steps' = steps + 1
            /\ UNCHANGED <<topLevelId, nextText, added, removed, lastAddDim,
                           recreated, searchRes, provider, messages, nextUuid,
                           now, procVars, ticket>>

\* one call of get_answer and what it returned
GetAnswerCall(ids, questions, E) ==
    \E n \in ids, question \in questions,
       conversation_id \in Conversations, env \in E :
        LET Commit(r) ==
                /\ SetWorld(r.w)
                /\ SetCache(r.c)
                /\ messages' = r.msgs
                /\ nextUuid' = r.uu
                /\ lastCall' = [op |-> "get_answer", chatbot_id |-> n,
                                question |-> question,
                                conversation_id |-> conversation_id,
                                fault |-> env.fault,
                                kind |-> IF r.exc THEN "raised" ELSE "dict",
                                keys |-> r.keys, answer |-> r.answer,
                                out_conversation_id |-> r.out_conversation_id,
                                ok |-> TRUE, calls |-> r.calls, via |-> r.via,
                                wrote |-> r.wrote, ran |-> r.ran,
                                texts |-> r.texts, confidence |-> r.confidence,
                                inner |-> r.inner, chunks |-> r.chunks,
                                draft |-> r.draft,
                                response_type |-> r.response_type,
                                conf |-> env.conf, fb |-> env.fb,
                                llm |-> env.llm,
                                corpus |-> IF n \in Names /\ chatbot_data[n].valid
                                           THEN AllContent(chatbot_data[n].sources)
                                           ELSE <<>>,
                                kinds |-> <<>>]
        IN  /\ Commit(get_answer(
                   World, CacheState, messages, nextUuid, now,
                   IF n \in Names THEN chatbot_data[n]
                   ELSE [valid |-> FALSE, sources |-> <<>>],
                   n, question, conversation_id,
                   get_embedding_dimension(provider), env))
            /\ UNCHANGED <<topLevelId, nextText, added, removed, lastAddDim,
                           recreated, searchRes, provider, chatbot_data, now,
                           ticket>>

\* POST /ask of an existing chatbot
GetAnswer ==
    /\ steps < MaxSteps
    /\ GetAnswerCall(Names, Questions \ {PyNone}, OkEnvs)
    /\ steps' = steps + 1
    /\ UNCHANGED procVars

\* time passes
Tick ==
    /\ steps < MaxSteps
    /\ now + TickLen <= MaxClock
    /\ now' = now + TickLen
    /\ lastCall' = NoCall
    /\ steps' = steps + 1
    /\ UNCHANGED <<vsVars, obsVars, dbVars, redis_client, redis_store,
                   in_memory_cache, in_memory_ttl, procVars, ticket>>

NextApp == TrainChatbot \/ UpdateChatbotData \/ GetAnswer \/ Tick

\* any sequence of requests while every collaborator works
SpecApp == InitApp /\ [][NextApp]_vars

(***************************************************************************)
(* One question, any question, on a tenant trained or not, its data valid  *)
(* or not, its caches warm or not, while any one collaborator fails.       *)
(***************************************************************************)
Tenant == "t1"
RebuildQuestion == "refund policy?"

InitAsk ==
    /\ \E m \in Modes, k0 \in 0..1, rcl \in BOOLEAN, valid \in BOOLEAN,
          warm \in BOOLEAN :
         LET dim == get_embedding_dimension("together")
             Start(up, ga) ==
                 /\ InitWorld(ga.w)
                 /\ chatbot_data = [n \in Names |-> up.data]
                 /\ redis_client = ga.c.redis_client
                 /\ redis_store = ga.c.redis
                 /\ in_memory_cache = MemValues(ga.c.mem)
                 /\ in_memory_ttl = MemExpiries(ga.c.mem)
                 /\ messages = ga.msgs
                 /\ nextUuid = ga.uu
             Asked(up) ==
                 Start(up,
                       IF warm
                       THEN get_answer(up.w, up.c, EmptyDict, 0, 0, up.data,
                                       Tenant, RebuildQuestion, PyNone, dim, Healthy)
                       ELSE [w |-> up.w, c |-> up.c, msgs |-> EmptyDict, uu |-> 0])
             Trained(tr) ==
                 Asked(IF valid THEN tr
                       ELSE update_chatbot_data(tr.w, tr.c, Tenant,
                                [valid |-> FALSE, sources |-> <<>>], Healthy))
         IN  /\ Trained(train_chatbot(
                    VectorDBService_init(m),
                    [redis_client |-> rcl, redis |-> EmptyDict, mem |-> EmptyDict],
                    0, [valid |-> TRUE, sources |-> <<>>], Tenant,
                    [i \in 1..k0 |-> [id |-> i, kind |-> "long"]], dim, Healthy))
             /\ nextText = k0 + 1
    /\ topLevelId = FALSE
    /\ InitObs
    /\ provider = "together"
    /\ now = 0
    /\ lastCall = NoCall
    /\ steps = 0
    /\ trainer = IdleProcs
    /\ asker = [pc |-> "ready"]
    /\ ticket = IdleTicket

AskOnce ==
    /\ asker.pc = "ready"
    /\ GetAnswerCall(ChatbotIds, Questions, AllEnvs)
    /\ asker' = [pc |-> "asked"]
    /\ UNCHANGED <<trainer, steps>>

SpecAsk == InitAsk /\ [][AskOnce]_vars

(***************************************************************************)
(* The embedding service alone: call after call of get_embeddings on the   *)
(* singleton of one provider, each call in a process with its own hash     *)
(* seed.                                                                   *)
(***************************************************************************)
InitEmbed ==
    /\ InitWorld(VectorDBService_init("qdrant"))
    /\ topLevelId = FALSE
    /\ nextText = 1
    /\ InitObs
    /\ provider \in {"together", "openai", "cohere", "sentence-transformers",
                     "fallback"}
    /\ redis_client = FALSE
    /\ InitRows
    /\ trainer = IdleProcs
    /\ asker = IdleProcs
    /\ ticket = IdleTicket

GetEmbeddings ==
    \E len \in 0..MaxTexts :
      \E texts \in [1..len -> 1..MaxDocs], bad \in SUBSET (1..len),
         hashseed \in 0..MaxHashSeed :
        /\ lastCall' = [op |-> "get_embeddings", texts |-> texts, bad |-> bad,
                        hashseed |-> hashseed,
                        vectors |-> get_embeddings(provider, texts, bad, hashseed)]
        /\ UNCHANGED <<vsVars, obsVars, dbVars, cacheVars, steps, procVars, ticket>>

SpecEmbed == InitEmbed /\ [][GetEmbeddings]_vars

(***************************************************************************)
(* The in-memory cache under two threads of the same process (the Flask    *)
(* server is threaded; cache_utils takes no lock).  Redis is not           *)
(* configured.  Each thread makes call after call of cache_get, cache_set, *)
(* cache_delete or cache_invalidate, and a step is one test, one read or   *)
(* one write of a dictionary: the interpreter may switch threads between   *)
(* any two of them.  The two threads are kept in trainer and asker; a      *)
(* thread whose call raised stays at pc = "raised".                        *)
(***************************************************************************)
Threads == {"trainer", "asker"}
Thread(self) == IF self = "trainer" THEN trainer ELSE asker
SetThread(self, th) ==
    IF self = "trainer" THEN trainer' = th /\ UNCHANGED asker
    ELSE asker' = th /\ UNCHANGED trainer

InitRace ==
    /\ InitWorld(VectorDBService_init("qdrant"))
    /\ topLevelId = FALSE
    /\ nextText = 1
    /\ InitObs
    /\ provider = "together"
    /\ redis_client = FALSE
    /\ InitRows
    /\ trainer = IdleProcs
    /\ asker = IdleProcs
    /\ ticket = IdleTicket

RaceFrame == UNCHANGED <<vsVars, obsVars, dbVars, redis_client, redis_store,
                         now, lastCall, ticket>>

\* a thread enters one of the four functions
CacheCall(self) ==
    /\ Thread(self).pc = "off"
    /\ steps < MaxSteps
    /\ steps' = steps + 1
    /\ \E key \in {"chatbot:" \o Tenant, "chatbot_answer:" \o Tenant} :
         \/ SetThread(self, [pc |-> "get_in_cache", key |-> key, todo |-> <<>>])
         \/ SetThread(self, [pc |-> "set_cache", key |-> key, todo |-> <<>>])
         \/ SetThread(self, [pc |-> "del_in_cache", key |-> key, todo |-> <<>>])
         \/ SetThread(self, [pc |-> "invalidate", key |-> key, todo |-> <<>>])
    /\ UNCHANGED <<in_memory_cache, in_memory_ttl>>
    /\ RaceFrame

\* cache_get, in-memory part, a step at a time
CacheGetStep(self) ==
    LET th == Thread(self)
        At(pc) == SetThread(self, IF pc = "off" THEN IdleProcs
                                  ELSE [th EXCEPT !.pc = pc])
    IN  /\ \/ /\ th.pc = "get_in_cache"      \* if key in in_memory_cache
              /\ At(IF th.key \in DOMAIN in_memory_cache
                    THEN "get_in_ttl" ELSE "off")
              /\ UNCHANGED <<in_memory_cache, in_memory_ttl>>
           \/ /\ th.pc = "get_in_ttl"        \* if key in in_memory_ttl
              /\ At(IF th.key \in DOMAIN in_memory_ttl
                    THEN "get_read_ttl" ELSE "get_return")
              /\ UNCHANGED <<in_memory_cache, in_memory_ttl>>
           \/ /\ th.pc = "get_read_ttl"      \* and in_memory_ttl[key] < time.time()
              /\ At(IF th.key \notin DOMAIN in_memory_ttl THEN "raised"
                    ELSE IF in_memory_ttl[th.key] < now THEN "get_del_cache"
                    ELSE "get_return")
              /\ UNCHANGED <<in_memory_cache, in_memory_ttl>>
           \/ /\ th.pc = "get_del_cache"     \* del in_memory_cache[key]
              /\ IF th.key \in DOMAIN in_memory_cache
                 THEN At("get_del_ttl") /\ in_memory_cache' = Drop(in_memory_cache, th.key)
                 ELSE At("raised") /\ UNCHANGED in_memory_cache
              /\ UNCHANGED in_memory_ttl
           \/ /\ th.pc = "get_del_ttl"       \* del in_memory_ttl[key]
              /\ IF th.key \in DOMAIN in_memory_ttl
                 THEN At("off") /\ in_memory_ttl' = Drop(in_memory_ttl, th.key)
                 ELSE At("raised") /\ UNCHANGED in_memory_ttl
              /\ UNCHANGED in_memory_cache
           \/ /\ th.pc = "get_return"        \* return True, in_memory_cache[key]
              /\ At(IF th.key \in DOMAIN in_memory_cache THEN "off" ELSE "raised")
              /\ UNCHANGED <<in_memory_cache, in_memory_ttl>>
        /\ UNCHANGED steps
        /\ RaceFrame

\* cache_set, in-memory part: the two assignments, then the size test
CacheSetStep(self) ==
    LET th == Thread(self)
        At(pc) == SetThread(self, IF pc = "off" THEN IdleProcs
                                  ELSE [th EXCEPT !.pc = pc])
        Unexpired == {k \in DOMAIN in_memory_ttl : ~(in_memory_ttl[k] < now)}
    IN  /\ \/ /\ th.pc = "set_cache"         \* in_memory_cache[key] = value
              /\ in_memory_cache' = Put(in_memory_cache, th.key, steps)
              /\ At("set_ttl")
              /\ UNCHANGED in_memory_ttl
           \/ /\ th.pc = "set_ttl"           \* in_memory_ttl[key] = time.time() + ttl
              /\ in_memory_ttl' = Put(in_memory_ttl, th.key,
                                      now + ANSWER_CONFIDENCE_TTL)
              /\ At("set_clean")
              /\ UNCHANGED in_memory_cache
           \/ /\ th.pc = "set_clean"         \* if len(in_memory_cache) > 1000
              /\ IF Cardinality(DOMAIN in_memory_cache) > InMemoryLimit
                 THEN /\ in_memory_cache' =
                            [k \in (DOMAIN in_memory_cache)
                                      \ ((DOMAIN in_memory_ttl) \ Unexpired)
                                |-> in_memory_cache[k]]
                      /\ in_memory_ttl' = [k \in Unexpired |-> in_memory_ttl[k]]
                 ELSE UNCHANGED <<in_memory_cache, in_memory_ttl>>
              /\ At("off")
        /\ UNCHANGED steps
        /\ RaceFrame

\* cache_delete, in-memory part, and the same four lines inside the loop of
\* cache_invalidate over keys_to_delete
CacheDeleteStep(self) ==
    LET th == Thread(self)
        At(pc) == SetThread(self, IF pc = "off" THEN IdleProcs
                                  ELSE [th EXCEPT !.pc = pc])
        Continue == IF th.todo = <<>> THEN At("off")
                    ELSE SetThread(self, [pc |-> "del_in_cache",
                                          key |-> Head(th.todo),
                                          todo |-> Tail(th.todo)])
    IN  /\ \/ /\ th.pc = "del_in_cache"      \* if key in in_memory_cache
              /\ At(IF th.key \in DOMAIN in_memory_cache
                    THEN "del_cache" ELSE "del_in_ttl")
              /\ UNCHANGED <<in_memory_cache, in_memory_ttl>>
           \/ /\ th.pc = "del_cache"         \* del in_memory_cache[key]
              /\ IF th.key \in DOMAIN in_memory_cache
                 THEN At("del_in_ttl") /\ in_memory_cache' = Drop(in_memory_cache, th.key)
                 ELSE At("raised") /\ UNCHANGED in_memory_cache
              /\ UNCHANGED in_memory_ttl
           \/ /\ th.pc = "del_in_ttl"        \* if key in in_memory_ttl
              /\ IF th.key \in DOMAIN in_memory_ttl THEN At("del_ttl") ELSE Continue
              /\ UNCHANGED <<in_memory_cache, in_memory_ttl>>
           \/ /\ th.pc = "del_ttl"           \* del in_memory_ttl[key]
              /\ IF th.key \in DOMAIN in_memory_ttl
                 THEN Continue /\ in_memory_ttl' = Drop(in_memory_ttl, th.key)
                 ELSE At("raised") /\ UNCHANGED in_memory_ttl
              /\ UNCHANGED in_memory_cache
        /\ UNCHANGED steps
        /\ RaceFrame

\* cache_invalidate: keys_to_delete = [k for k in in_memory_cache.keys() if
\* k.startswith(key_prefix)]
CacheInvalidateStep(self) ==
    LET th == Thread(self)
        matching == {k \in DOMAIN in_memory_cache : startswith(k, th.key)}
        RECURSIVE Listed(_)
        Listed(S) == IF S = {} THEN <<>>
                     ELSE LET k == CHOOSE x \in S : TRUE
                          IN  <<k>> \o Listed(S \ {k})
        keys_to_delete == Listed(matching)
    IN  /\ th.pc = "invalidate"
        /\ IF keys_to_delete = <<>>
           THEN SetThread(self, IdleProcs)
           ELSE SetThread(self, [pc |-> "del_in_cache",
                                 key |-> Head(keys_to_delete),
                                 todo |-> Tail(keys_to_delete)])
        /\ UNCHANGED <<in_memory_cache, in_memory_ttl, steps>>
        /\ RaceFrame

\* time passes between two steps
RaceTick ==
    /\ now + TickLen <= MaxClock
    /\ now' = now + TickLen
    /\ UNCHANGED <<vsVars, obsVars, dbVars, redis_client, redis_store,
                   in_memory_cache, in_memory_ttl, lastCall, steps, procVars,
                   ticket>>

NextRace ==
    \/ \E self \in Threads :
         \/ CacheCall(self)
         \/ CacheGetStep(self)
         \/ CacheSetStep(self)
         \/ CacheDeleteStep(self)
         \/ CacheInvalidateStep(self)
    \/ RaceTick

SpecRace == InitRace /\ [][NextRace]_vars

(***************************************************************************)
(* The in-memory cache when it is nearly full.  The process has made       *)
(* InMemoryLimit - 1 or InMemoryLimit calls of cache_set at time 0 while   *)
(* Redis could not be reached, the first old of them with the shortest     *)
(* time to live and the others with the longest; it then goes on calling   *)
(* cache_set, Redis still unreachable, while time passes.                  *)
(***************************************************************************)
InitFull ==
    /\ InitWorld(VectorDBService_init("qdrant"))
    /\ topLevelId = FALSE
    /\ nextText = 1
    /\ InitObs
    /\ provider = "together"
    /\ redis_client = TRUE
    /\ chatbot_data = [n \in Names |-> [valid |-> TRUE, sources |-> <<>>]]
    /\ messages = EmptyDict
    /\ nextUuid = 0
    /\ redis_store = EmptyDict
    /\ \E n \in {InMemoryLimit - 1, InMemoryLimit} :
         \E old \in {0, 1, n} :
           /\ in_memory_cache = [k \in {ToString(i) : i \in 1..n} |-> 0]
           /\ in_memory_ttl =
                  [k \in {ToString(i) : i \in 1..n} |->
                      IF k \in {ToString(i) : i \in 1..old}
                      THEN VECTOR_SEARCH_TTL ELSE LLM_RESPONSE_TTL]
    /\ now = 0
    /\ lastCall = NoCall
    /\ steps = 0
    /\ trainer = IdleProcs
    /\ asker = IdleProcs
    /\ ticket = IdleTicket

\* cache_set of a new key or of the oldest one, the Redis call raising
CacheSetDown ==
    /\ steps < MaxSteps
    /\ \E key \in {"1", ToString(Cardinality(DOMAIN in_memory_cache) + steps + 1)},
          ttl \in {VECTOR_SEARCH_TTL, LLM_RESPONSE_TTL} :
         SetCache(cache_set(CacheState, key, steps + 1, ttl, now, TRUE))
    /\ now' = now
    /\ steps' = steps + 1
    /\ lastCall' = [NoCall EXCEPT !.op = "cache_set"]
    /\ UNCHANGED <<vsVars, obsVars, dbVars, procVars, ticket>>

SpecFull == InitFull /\ [][CacheSetDown \/ Tick]_vars

(***************************************************************************)
(* The cache across Redis outages.  A Redis client is configured; the      *)
(* Redis calls of each cache_get, cache_set and cache_delete either work   *)
(* or raise, and time may pass before a call.  lastCall keeps, with the    *)
(* outcome of the call, the last value set for each key since it was last  *)
(* deleted (latest), with its expiry.                                      *)
(***************************************************************************)
OutageKeys == {"chatbot:" \o Tenant, "chatbot_answer:" \o Tenant}

InitOutage ==
    /\ InitWorld(VectorDBService_init("qdrant"))
    /\ topLevelId = FALSE
    /\ nextText = 1
    /\ InitObs
    /\ provider = "together"
    /\ redis_client = TRUE
    /\ chatbot_data = [n \in Names |-> [valid |-> TRUE, sources |-> <<>>]]
    /\ messages = EmptyDict
    /\ nextUuid = 0
    /\ redis_store = EmptyDict
    /\ in_memory_cache = EmptyDict
    /\ in_memory_ttl = EmptyDict
    /\ now = 0
    /\ lastCall = [op |-> "none", key |-> PyNone, hit |-> FALSE,
                   value |-> PyNone, latest |-> EmptyDict]
    /\ steps = 0
    /\ trainer = IdleProcs
    /\ asker = IdleProcs
    /\ ticket = IdleTicket

OutageFrame == UNCHANGED <<vsVars, obsVars, dbVars, procVars, ticket>>

CacheSetCall ==
    \E key \in OutageKeys, ttl \in {VECTOR_SEARCH_TTL, LLM_RESPONSE_TTL},
       rdown \in BOOLEAN, t \in {now, now + TickLen} :
        /\ steps < MaxSteps
        /\ t <= MaxClock
        /\ SetCache(cache_set(CacheState, key, steps + 1, ttl, t, rdown))
        /\ now' = t
        /\ steps' = steps + 1
        /\ lastCall' = [op |-> "cache_set", key |-> key, hit |-> FALSE,
                        value |-> steps + 1,
                        latest |-> Put(lastCall.latest, key,
                                       [value |-> steps + 1, expires |-> t + ttl])]
        /\ OutageFrame

CacheGetCall ==
    \E key \in OutageKeys, rdown \in BOOLEAN, t \in {now, now + TickLen} :
        LET Got(g) ==
                /\ SetCache(g.c)
                /\ lastCall' = [op |-> "cache_get", key |-> key, hit |-> g.hit,
                                value |-> g.value, latest |-> lastCall.latest]
        IN  /\ steps < MaxSteps
            /\ t <= MaxClock
            /\ Got(cache_get(CacheState, key, t, rdown))
            /\ now' = t
            /\ steps' = steps + 1
            /\ OutageFrame

CacheDeleteCall ==
    \E key \in OutageKeys, rdown \in BOOLEAN, t \in {now, now + TickLen} :
        /\ steps < MaxSteps
        /\ t <= MaxClock
        /\ SetCache(cache_delete(CacheState, key, rdown))
        /\ now' = t
        /\ steps' = steps + 1
        /\ lastCall' = [op |-> "cache_delete", key |-> key, hit |-> FALSE,
                        value |-> PyNone, latest |-> Drop(lastCall.latest, key)]
        /\ OutageFrame

SpecOutage == InitOutage /\ [][CacheSetCall \/ CacheGetCall \/ CacheDeleteCall]_vars

(***************************************************************************)
(* The scoring alone: calculate_response_confidence on a question of up to *)
(* MaxWords words, and the confidence the fallback strategy attaches to    *)
(* what it returns for the same question, one call per behaviour.          *)
(***************************************************************************)
ScoreConfidence ==
    \E nchunks \in {0, 1, RetrieveTopK}, words \in 0..MaxWords,
       awords \in {0, 30}, markers \in {0, 1, 6}, raises \in BOOLEAN :
      \E qwords \in (IF words = 0 THEN {0} ELSE 1..words),
         specific \in {0, words}, ratio \in {0, 10},
         all_content \in BOOLEAN, keywords \in BOOLEAN, fbraises \in BOOLEAN :
        \E overlap \in 0..qwords :
          LET Scored(score) ==
                lastCall' = [op |-> "confidence", nchunks |-> nchunks,
                             markers |-> markers, raises |-> raises,
                             score |-> score,
                             fallback |-> enhanced_fallback_confidence(
                                 nchunks, score, all_content,
                                 find_partial_matches(qwords, overlap, ratio),
                                 keywords, fbraises)]
          IN  /\ lastCall = NoCall
              /\ Scored(calculate_response_confidence(
                            nchunks, qwords, overlap, awords, markers, specific,
                            raises))
              /\ UNCHANGED <<vsVars, obsVars, dbVars, cacheVars, steps,
                             procVars, ticket>>

SpecConfidence == InitEmbed /\ [][ScoreConfidence]_vars

(***************************************************************************)
(* The chunker alone: chunk_text on a cleaned text of one to MaxSentences  *)
(* sentences, short, medium or longer than a chunk.                        *)
(***************************************************************************)
ChunkText ==
    \E n \in 1..MaxSentences, tokenized \in BOOLEAN :
      \E lens \in [1..n -> {MinChunkSize \div 2, ChunkSize \div 2,
                             ChunkSize + MinChunkSize}] :
        /\ lastCall' = [op |-> "chunk_text", sentences |-> lens,
                        tokenized |-> tokenized,
                        chunks |-> chunk_text_sentences(lens, tokenized)]
        /\ UNCHANGED <<vsVars, obsVars, dbVars, cacheVars, steps, procVars, ticket>>

SpecChunk == InitEmbed /\ [][ChunkText]_vars

(***************************************************************************)
(* One question through the answer pipeline, for every score the draft may *)
(* get and every outcome of the fuzzy pass over the corpus.                *)
(***************************************************************************)
AskPipeline ==
    /\ asker.pc = "ready"
    /\ GetAnswerCall(Names, {"Hi ", "refund policy?", "why is it so?"},
           {Env(f, l, cf, fb) :
               f \in {"none", "search"}, l \in {"up", "down"},
               cf \in {CONFIDENCE_THRESHOLDS.MEDIUM - 20,
                        CONFIDENCE_THRESHOLDS.MEDIUM + 10,
                        CONFIDENCE_THRESHOLDS.HIGH + 20},
               fb \in {"partial_match", "none", "basic_fallback"}})
    /\ asker' = [pc |-> "asked"]
    /\ UNCHANGED <<trainer, steps>>

SpecPipeline == InitAsk /\ [][AskPipeline]_vars


(***************************************************************************)
(* A retrain of tenant "t1" (train_chatbot) running concurrently with      *)
(* questions for "t1" (get_enhanced_answer).  Neither takes a lock: the    *)
(* steps below are the calls each makes on the vector database, and they   *)
(* interleave freely.                                                      *)
(*   trainer: delete_collection and cache invalidation; create_collection  *)
(*            with the dimension check and start_id of add_documents; one  *)
(*            step per sub-batch upsert (Qdrant), or the whole insertion   *)
(*            (FAISS, text-only); the last step ends add_documents and     *)
(*            stores Chatbot.data.                                         *)
(*   asker:   get_collection_info; preprocess_and_index_data when the      *)
(*            collection looks absent or empty; retrieve_relevant_context. *)
(***************************************************************************)
InProgress == {"deleted", "adding"}

IdleTrainer == [pc |-> "idle", texts |-> <<>>, docs |-> <<>>, batch |-> 0,
                start_id |-> 0, successful_batches |-> 0]
IdleAsker == [pc |-> "idle", asks |-> 0, items |-> <<>>, via |-> "none",
              searchedDuring |-> FALSE, wroteDuring |-> FALSE]

\* the tenant was trained once, on one document, or never
InitRebuild ==
    /\ provider \in Providers
    /\ \E m \in Modes, k0 \in 0..1 :
         LET Start(r) ==
                 /\ InitWorld(r.w)
                 /\ chatbot_data = [n \in Names |-> r.data]
         IN  /\ Start(train_chatbot(
                    VectorDBService_init(m),
                    [redis_client |-> FALSE, redis |-> EmptyDict, mem |-> EmptyDict],
                    0, [valid |-> TRUE, sources |-> <<>>], Tenant,
                    [i \in 1..k0 |-> [id |-> i, kind |-> "long"]],
                    get_embedding_dimension(provider), Healthy))
             /\ nextText = k0 + 1
    /\ topLevelId = FALSE
    /\ InitObs
    /\ messages = EmptyDict
    /\ nextUuid = 0
    /\ redis_client = FALSE
    /\ redis_store = EmptyDict
    /\ in_memory_cache = EmptyDict
    /\ in_memory_ttl = EmptyDict
    /\ now = 0
    /\ lastCall = NoCall
    /\ steps = 0
    /\ trainer = IdleTrainer
    /\ asker = IdleAsker
    /\ ticket = IdleTicket

RebuildFrame == UNCHANGED <<obsVars, provider, messages, nextUuid, now,
                            lastCall, steps, ticket>>

\* train_chatbot: delete_collection, then the cache invalidation
TrainDelete ==
    \E k \in 1..MaxDocs :
        LET docs == [i \in 1..k |-> [id |-> nextText + i - 1, kind |-> "long"]]
        IN  /\ trainer.pc = "idle"
            /\ nextText + k - 1 <= MaxTexts
            /\ SetWorld(delete_collection(World, Tenant, "none").w)
            /\ SetCache(cache_invalidate(
                   cache_delete(CacheState, "chatbot:" \o Tenant, FALSE),
                   "chatbot_answer:" \o Tenant, FALSE))
            /\ trainer' = [IdleTrainer EXCEPT !.pc = "deleted", !.docs = docs,
                                              !.texts = process_documents(docs)]
            /\ nextText' = nextText + k
            /\ UNCHANGED <<topLevelId, added, removed, lastAddDim, recreated,
                           searchRes, provider, chatbot_data, messages, nextUuid,
                           now, lastCall, steps, asker, ticket>>

\* preprocess_and_index_data up to the first upsert
TrainPrepare ==
    LET dim == get_embedding_dimension(provider)
        Prepared(w2) ==
            /\ SetWorld(w2)
            /\ trainer' = [trainer EXCEPT !.pc = "adding",
                                          !.start_id = StartId(w2, Tenant, "none")]
        Created(w1) ==
            Prepared(IF mode = "qdrant"
                     THEN EnsureDimension(w1, Tenant, dim, "none") ELSE w1)
    IN  /\ trainer.pc = "deleted"
        /\ Created(create_collection(World, Tenant, dim, "none").w)
        /\ UNCHANGED <<cacheVars, chatbot_data, asker>>
        /\ RebuildFrame

\* client.upsert of sub-batch b of texts, ids counted from start_id
upsert_batch(w, n, texts, d, cid, b, start_id) ==
    LET old == w.client[n].points
        pos == {j \in 0..(Len(texts) - 1) : j \div BatchSize = b}
        ids == {start_id + j : j \in pos}
    IN  [w EXCEPT !.client[n].points =
            [id \in (DOMAIN old) \cup ids |->
                IF id \in ids THEN PointStruct(texts[id - start_id + 1], d, cid)
                ELSE old[id]]]

\* the sources train_chatbot appends to Chatbot.data when it ends
TrainedData(data, docs) ==
    LET existing_sources == IF data.valid THEN data.sources ELSE <<>>
        IsNew(doc) == \A i \in DOMAIN existing_sources :
                          existing_sources[i].id # doc.id
    IN  [valid |-> TRUE, sources |-> existing_sources \o SelectSeq(docs, IsNew)]

\* one sub-batch (Qdrant) or the whole insertion (FAISS, text-only)
TrainBatch ==
    LET dim == get_embedding_dimension(provider)
        b == trainer.batch
        last == (b + 1) * BatchSize >= Len(trainer.texts)
        ends == mode # "qdrant" \/ last
        Upserted(fails, ok) ==
            /\ SetWorld(
                  IF mode # "qdrant"
                  THEN add_documents(World, Tenant, trainer.texts, dim, NoFilter,
                                     "none")
                  ELSE IF fails
                  THEN IF last /\ ok = 0
                       THEN FallbackStore(World, Tenant, trainer.texts, NoFilter)
                       ELSE World
                  ELSE upsert_batch(World, Tenant, trainer.texts, dim, NoFilter, b,
                                    trainer.start_id))
            /\ trainer' = [trainer EXCEPT !.pc = IF ends THEN "done" ELSE "adding",
                                          !.batch = b + 1,
                                          !.successful_batches = ok]
        Tried(fails) ==
            Upserted(fails, trainer.successful_batches + (IF fails THEN 0 ELSE 1))
    IN  /\ trainer.pc = "adding"
        /\ Tried(UpsertFails(World, Tenant, dim, b, "none"))
        /\ chatbot_data' = IF ends
                           THEN [chatbot_data EXCEPT
                                    ![Tenant] = TrainedData(@, trainer.docs)]
                           ELSE chatbot_data
        /\ UNCHANGED <<cacheVars, asker>>
        /\ RebuildFrame

\* get_enhanced_answer, from get_collection_info to the (re)indexing
AskIndex ==
    LET dim == get_embedding_dimension(provider)
        Indexed(idx) ==
            /\ SetWorld(idx.w)
            /\ asker' = [asker EXCEPT
                            !.pc = "indexed", !.asks = @ + 1,
                            !.wroteDuring = @ \/ (idx.ran /\ trainer.pc \in InProgress)]
        Inspected(info) ==
            Indexed(IF ~info.exists \/ info.points_count = 0
                    THEN preprocess_and_index_data(
                             World, Tenant,
                             parse_chatbot_data(chatbot_data[Tenant]).docs, dim,
                             "none")
                    ELSE [w |-> World] @@ NotIndexed)
    IN  /\ asker.pc \in {"idle", "done"}
        /\ asker.asks < MaxAsks
        /\ Inspected(get_collection_info(World, Tenant, "none"))
        /\ UNCHANGED <<cacheVars, chatbot_data, trainer>>
        /\ RebuildFrame

\* get_enhanced_answer: retrieve_relevant_context
AskSearch ==
    LET dim == get_embedding_dimension(provider)
        Unfiltered(r1) ==
            IF r1.items = <<>>
            THEN search(World, Tenant, dim, QueryPoint, RetrieveTopK, NoFilter,
                        "none")
            ELSE r1
        Retrieved(rc, r) ==
            /\ SetCache(rc.c)
            /\ asker' = [asker EXCEPT
                            !.pc = "done", !.items = rc.chunks,
                            !.via = IF rc.calls = {} THEN "context_cache" ELSE r.via,
                            !.searchedDuring = trainer.pc \in InProgress]
    IN  /\ asker.pc = "indexed"
        /\ Retrieved(retrieve_relevant_context(World, CacheState, now,
                                               RebuildQuestion, Tenant, dim, "none"),
                     Unfiltered(search(World, Tenant, dim, QueryPoint, RetrieveTopK,
                                       Tenant, "none")))
        /\ UNCHANGED <<vsVars, chatbot_data, trainer>>
        /\ RebuildFrame

NextRebuild == TrainDelete \/ TrainPrepare \/ TrainBatch \/ AskIndex \/ AskSearch

SpecRebuild == InitRebuild /\ [][NextRebuild]_vars

(***************************************************************************)
(* should_suggest_ticket on every outcome of a turn: confidence 0..100,    *)
(* strategy level 1..4, and the number of failed turns before it.          *)
(***************************************************************************)
InitTicket ==
    /\ InitWorld(VectorDBService_init("qdrant"))
    /\ topLevelId = FALSE
    /\ nextText = 1
    /\ InitObs
    /\ provider = "together"
    /\ redis_client = FALSE
    /\ InitRows
    /\ trainer = IdleProcs
    /\ asker = IdleProcs
    /\ ticket \in [confidence : 0..MaxConfidence,
                   strategy_level : 1..LastResortLevel,
                   consecutive_failures : 0..MaxFailures,
                   evaluated : {FALSE}, suggest : {FALSE}]

SuggestTicket ==
    /\ ~ticket.evaluated
    /\ ticket' = [ticket EXCEPT
                     !.evaluated = TRUE,
                     !.suggest = should_suggest_ticket(
                         ticket.confidence, ticket.strategy_level,
                         ticket.consecutive_failures)]
    /\ UNCHANGED <<vsVars, obsVars, dbVars, cacheVars, lastCall, steps,
                   procVars>>

SpecTicket == InitTicket /\ [][SuggestTicket]_vars

(***************************************************************************)
(* C1.  In the Qdrant and in the FAISS backend, once add_documents has     *)
(* inserted vectors of dimension D' into a collection, the collection has  *)
(* been rebuilt at D': no point of another dimension is left for a search  *)
(* to retrieve, and the collection holds points of one dimension only.     *)
(* Stated on a healthy backend (SpecVSOk).                                 *)
(***************************************************************************)
C1_RebuiltAtNewDimension ==
    \A n \in Names :
        (mode \in {"qdrant", "faiss"} /\ lastAddDim[n] # 0)
            => PrimaryDims(n) \subseteq {lastAddDim[n]}

(***************************************************************************)
(* C2.  search never raises to its caller: in every backend mode it        *)
(* returns a list, and when a backend call failed inside it, the list is   *)
(* the one the text fallback gives.                                        *)
(***************************************************************************)
C2_SearchNeverRaises ==
    searchRes.called =>
        /\ searchRes.kind = "list"
        /\ searchRes.err =>
              searchRes.items = _fallback_text_search(
                  World, searchRes.name, searchRes.top_k, searchRes.filter)

\* a search whose backend call failed and that answered from the text store
C2_Witness ==
    /\ searchRes.called
    /\ searchRes.err
    /\ searchRes.kind = "list"
    /\ searchRes.items # <<>>

(***************************************************************************)
(* C3.  delete_collection is a full wipe in every backend mode: after it   *)
(* returned, nothing added before it is held for the name (points, text    *)
(* store, metadata store) and no later search on the name returns such a   *)
(* text, also after create_collection ran again.                           *)
(* Stated on a healthy backend (SpecVSOk).                                 *)
(***************************************************************************)
C3_DeleteIsFullWipe ==
    \A n \in Names :
        /\ (PointTexts(n) \cup StoreTexts(n)) \cap removed[n] = {}
        /\ (searchRes.called /\ searchRes.name = n)
              => SeqRange(searchRes.items) \cap removed[n] = {}

(***************************************************************************)
(* C4.  Chunks are write-once per generation: after an ingestion of a      *)
(* tenant has completed (train_chatbot, or preprocess_and_index_data run   *)
(* by a question), the tenant's collection holds exactly the chunks made   *)
(* from that ingestion's documents and none from an earlier generation.    *)
(* Stated while every collaborator works (SpecApp).                        *)
(***************************************************************************)
C4_WriteOncePerGeneration ==
    (lastCall.op \in {"train_chatbot", "get_answer"} /\ lastCall.ran)
        => PointTexts(lastCall.chatbot_id) \cup StoreTexts(lastCall.chatbot_id)
               = SeqRange(lastCall.texts)

(***************************************************************************)
(* C5.  A question that runs while the tenant's collection is rebuilt      *)
(* never reads a half-populated index: a search made during the rebuild    *)
(* that is answered by the vector index sees the complete new generation   *)
(* (otherwise it is answered by the degraded path), and the question does  *)
(* not itself write chunks into the collection being rebuilt.              *)
(***************************************************************************)
C5_NoHalfPopulatedRead ==
    /\ (asker.pc = "done" /\ asker.searchedDuring /\ asker.via = "vector")
          => SeqRange(asker.items) = SeqRange(trainer.texts)
    /\ ~asker.wroteDuring

(***************************************************************************)
(* C6.  For every question, corpus and failure of a collaborator,          *)
(* get_enhanced_answer returns an answer string and get_answer returns a   *)
(* dictionary with an 'answer' string; a failure shows only as the 'error' *)
(* key next to that answer, never as an exception leaving get_answer.      *)
(***************************************************************************)
C6_GetAnswerNeverRaises ==
    lastCall.op = "get_answer" =>
        /\ lastCall.kind = "dict"
        /\ "answer" \in lastCall.keys
        /\ lastCall.answer # PyNone
        /\ lastCall.inner \in {"not_called", "str"}

\* the query of the conversation rows raised and get_answer reported it
C6_Witness ==
    /\ lastCall.op = "get_answer"
    /\ lastCall.fault = "db_query"
    /\ lastCall.kind = "dict"
    /\ lastCall.keys = {"answer", "error"}

(***************************************************************************)
(* C7.  should_suggest_ticket is true for a Tier-4 (last-resort) outcome   *)
(* preceded by two or more consecutive failures, and false for one         *)
(* preceded by fewer than two.                                             *)
(***************************************************************************)
C7_TicketAfterTwoFailures ==
    (/\ ticket.evaluated
     /\ ticket.strategy_level = LastResortLevel
     /\ ticket.confidence = BasicFallbackConfidence)
        => (ticket.suggest <=> ticket.consecutive_failures >= TicketAfterFailures)

(***************************************************************************)
(* C8.  The answer to a question asked with a conversation id is never     *)
(* written to an answer cache and never served from one, neither by        *)
(* get_answer nor by get_enhanced_answer, whatever the conversation's      *)
(* history is (a conversation with no earlier turn included).              *)
(***************************************************************************)
C8_ConversationNeverCached ==
    (lastCall.op = "get_answer" /\ lastCall.conversation_id # PyNone)
        => /\ lastCall.wrote = {}
           /\ lastCall.via \notin {"service_cache", "pipeline_cache"}

(***************************************************************************)
(* C9.  After get_answer answered a question asked without a conversation  *)
(* id, the result is held in the cache under the service key of (tenant,   *)
(* question), from which the same question is served again.                *)
(***************************************************************************)
C9_StatelessAnswerCached ==
    (/\ lastCall.op = "get_answer"
     /\ lastCall.conversation_id = PyNone
     /\ lastCall.kind = "dict"
     /\ "error" \notin lastCall.keys)
        => ServiceKey(lastCall.chatbot_id, lastCall.question)
               \in (DOMAIN redis_store) \cup (DOMAIN in_memory_cache)

(***************************************************************************)
(* C10.  A greeting-like or very short question is answered with the fixed *)
(* greeting without retrieval: the request makes no indexing, embedding or *)
(* vector-search call, also when the corpus is empty.                      *)
(***************************************************************************)
C10_GreetingSkipsRetrieval ==
    (/\ lastCall.op = "get_answer"
     /\ lastCall.question # PyNone
     /\ IsGreeting(lastCall.question)
     /\ "error" \notin lastCall.keys)
        => /\ lastCall.answer
                 = format_response(lastCall.question, GreetingAnswer,
                                   GreetingConfidence).answer
           /\ lastCall.calls \cap {"index", "embed", "search"} = {}

(***************************************************************************)
(* C11.  When chunks were retrieved for a question that is not a greeting, *)
(* the answer get_enhanced_answer returns is the formatted draft when the  *)
(* draft scores HIGH (>= 70), and the formatted draft followed by the      *)
(* uncertainty note when it scores MEDIUM (50 <= score < 70).              *)
(***************************************************************************)
C11_MediumGetsUncertaintyNote ==
    (/\ lastCall.op = "get_answer" /\ lastCall.via = "computed"
     /\ lastCall.draft # PyNone /\ lastCall.chunks # <<>>)
        => /\ lastCall.conf >= CONFIDENCE_THRESHOLDS.HIGH
                => lastCall.answer
                       = format_response(lastCall.question, lastCall.draft,
                                         lastCall.conf).answer
           /\ (lastCall.conf >= CONFIDENCE_THRESHOLDS.MEDIUM
                /\ lastCall.conf < CONFIDENCE_THRESHOLDS.HIGH)
                => lastCall.answer
                       = format_response(lastCall.question,
                                         lastCall.draft \o UncertaintyNote,
                                         lastCall.conf).answer

(***************************************************************************)
(* C12.  A question that is not a greeting, for which nothing was          *)
(* retrieved while the corpus is not empty, gets a partial_match response  *)
(* when the fuzzy pass finds a passage, and otherwise the guided           *)
(* clarification (related topics and a clarifying question).               *)
(***************************************************************************)
C12_ZeroChunksTierTwoOrThree ==
    (/\ lastCall.op = "get_answer" /\ lastCall.via = "computed"
     /\ lastCall.response_type \notin {"none", "main_answer"}
     /\ lastCall.chunks = <<>> /\ lastCall.corpus # <<>>
     /\ lastCall.fb # "basic_fallback")
        => lastCall.response_type
               = IF lastCall.fb = "partial_match" THEN "partial_match"
                 ELSE "alternatives_and_clarification"

(***************************************************************************)
(* C13.  A training with no document at all indexes exactly one            *)
(* placeholder chunk: afterwards get_collection_info reports the tenant's  *)
(* collection as existing with at least one point.                         *)
(***************************************************************************)
C13_ZeroDocumentsPlaceholder ==
    (lastCall.op = "train_chatbot" /\ lastCall.ok /\ lastCall.kinds = <<>>)
        => /\ lastCall.texts = <<PlaceholderText>>
           /\ get_collection_info(World, lastCall.chatbot_id, "none").exists
           /\ get_collection_info(World, lastCall.chatbot_id, "none").points_count >= 1

(***************************************************************************)
(* C14.  A training whose documents are all shorter than the minimum chunk *)
(* size indexes the placeholder chunk, and afterwards get_collection_info  *)
(* reports exists = True and points_count >= 1, in every backend mode.     *)
(***************************************************************************)
C14_ShortDocumentsPlaceholder ==
    (/\ lastCall.op = "train_chatbot" /\ lastCall.ok /\ lastCall.kinds # <<>>
     /\ \A i \in DOMAIN lastCall.kinds : lastCall.kinds[i] = "short")
        => /\ lastCall.texts = <<PlaceholderText>>
           /\ get_collection_info(World, lastCall.chatbot_id, "none").exists
           /\ get_collection_info(World, lastCall.chatbot_id, "none").points_count >= 1

(***************************************************************************)
(* C15.  The texts add_documents has committed to a collection through the *)
(* primary backend (Qdrant points, FAISS vectors) are also held in the     *)
(* collection's fallback text store, so a search of that collection whose  *)
(* backend call fails returns stored texts and not an empty list.          *)
(***************************************************************************)
C15_FallbackStoreMirrorsPrimary ==
    /\ \A n \in Names :
          PointTexts(n) \subseteq
              (IF n \in DOMAIN text_stores THEN SeqRange(text_stores[n]) ELSE {})
    /\ (/\ searchRes.called /\ searchRes.err /\ searchRes.filter = NoFilter
        /\ PointTexts(searchRes.name) # {})
           => searchRes.items # <<>>

(***************************************************************************)
(* C16.  A search whose backend call fails, on a collection whose fallback *)
(* text store holds at least one text, returns a non-empty list of at most *)
(* top_k entries, with no filter and with the tenant's id as the filter.   *)
(***************************************************************************)
C16_FallbackSearchNonEmpty ==
    (/\ searchRes.called /\ searchRes.err
     /\ searchRes.name \in DOMAIN text_stores
     /\ text_stores[searchRes.name] # <<>>
     /\ searchRes.filter \in {NoFilter, searchRes.name})
        => /\ searchRes.kind = "list"
           /\ searchRes.items # <<>>
           /\ Len(searchRes.items) <= searchRes.top_k

(***************************************************************************)
(* C17.  add_documents inserts its texts sub-batch by sub-batch: when the  *)
(* upsert of a sub-batch fails and another succeeds, the texts of every    *)
(* sub-batch that succeeded are points of the collection after the call,   *)
(* and the texts of the failed sub-batch are skipped.                      *)
(***************************************************************************)
C17_SubBatchesIndependent ==
    (lastCall.op = "add_documents" /\ mode = "qdrant") =>
        LET texts == lastCall.texts
            Fails(b) == \/ lastCall.fault = "upsert"
                        \/ lastCall.fault = "batch0" /\ b = 0
                        \/ lastCall.fault = "batch1" /\ b = 1
            ok == {j \in 0..(Len(texts) - 1) : ~Fails(j \div BatchSize)}
        IN  ok # {} =>
                \A j \in 0..(Len(texts) - 1) :
                    IF j \in ok
                    THEN texts[j + 1] \in PointTexts(lastCall.chatbot_id)
                    ELSE texts[j + 1] \notin PointTexts(lastCall.chatbot_id)
                                               \cup StoreTexts(lastCall.chatbot_id)

C17_Witness ==
    /\ lastCall.op = "add_documents" /\ mode = "qdrant"
    /\ lastCall.fault = "batch0" /\ Len(lastCall.texts) >= 2
    /\ lastCall.texts[Len(lastCall.texts)] \in PointTexts(lastCall.chatbot_id)
    /\ lastCall.texts[1] \notin PointTexts(lastCall.chatbot_id)

(***************************************************************************)
(* C18.  get_embeddings returns one vector per text, in the order of the   *)
(* texts, each of the provider's dimension; and with a remote provider a   *)
(* text receives a fallback vector exactly when the request of its own     *)
(* batch failed, the texts of the other batches keeping the vectors of the *)
(* provider.                                                               *)
(***************************************************************************)
C18_BatchFailureIsLocal ==
    lastCall.op = "get_embeddings" =>
        LET texts == lastCall.texts
            vectors == lastCall.vectors
            batch(i) == (i - 1) \div EmbedBatchSize
            failed(i) == \E j \in lastCall.bad : batch(j) = batch(i)
        IN  /\ Len(vectors) = Len(texts)
            /\ \A i \in DOMAIN texts :
                  /\ vectors[i].text = texts[i]
                  /\ vectors[i].dim = get_embedding_dimension(provider)
                  /\ provider \in {"together", "openai", "cohere"}
                        => (vectors[i].kind = "fallback" <=> failed(i))

(***************************************************************************)
(* C19.  The fallback vector of a text depends on the text alone: two      *)
(* calls, in the same process or in two processes, give the same text the  *)
(* same fallback vector.                                                   *)
(***************************************************************************)
C19_FallbackVectorOfTextAlone ==
    [][(lastCall.op = "get_embeddings" /\ lastCall'.op = "get_embeddings")
          => \A i \in DOMAIN lastCall.vectors, j \in DOMAIN lastCall'.vectors :
                (/\ lastCall.texts[i] = lastCall'.texts[j]
                 /\ lastCall.vectors[i].kind = "fallback"
                 /\ lastCall'.vectors[j].kind = "fallback")
                    => lastCall.vectors[i] = lastCall'.vectors[j]]_vars

(***************************************************************************)
(* C20.  The chunks chunk_text returns for a non-empty cleaned text start  *)
(* at increasing offsets of the text, and each of them except possibly the *)
(* last has at most chunk_size characters.                                 *)
(***************************************************************************)
C20_ChunksOrderedAndBounded ==
    lastCall.op = "chunk_text" =>
        \A i \in 1..(Len(lastCall.chunks) - 1) :
            /\ lastCall.chunks[i].start < lastCall.chunks[i + 1].start
            /\ lastCall.chunks[i].len <= ChunkSize

(***************************************************************************)
(* C21.  chunk_text never returns a chunk shorter than min_chunk_size, on  *)
(* the sentence path (every flush and every hard-split window) and on the  *)
(* character-window fallback.                                              *)
(***************************************************************************)
C21_NoChunkBelowMinimum ==
    lastCall.op = "chunk_text" =>
        \A i \in 1..Len(lastCall.chunks) :
            lastCall.chunks[i].len >= MinChunkSize

(***************************************************************************)
(* C22.  calculate_response_confidence returns a score between 0 and 100   *)
(* points for every question, chunk list and answer, the empty ones and    *)
(* its exception path included, and so is every confidence attached to a   *)
(* result of generate_enhanced_fallback_response.                          *)
(***************************************************************************)
C22_ConfidenceWithinRange ==
    lastCall.op = "confidence" =>
        /\ lastCall.score >= 0
        /\ lastCall.score <= MaxConfidence * 60
        /\ lastCall.fallback.confidence >= 0
        /\ lastCall.fallback.confidence <= MaxConfidence * 60

\* C22: the penalty of the uncertainty markers exceeds what the other
\* factors give, the score is held at 0, and the fallback answers from a
\* partial match
C22_Witness ==
    /\ lastCall.op = "confidence"
    /\ lastCall.nchunks > 0
    /\ ~lastCall.raises
    /\ lastCall.markers = 6
    /\ lastCall.score = 0
    /\ lastCall.fallback.response_type = "partial_match"

(***************************************************************************)
(* C23.  Under every interleaving of cache_get, cache_set, cache_delete    *)
(* and cache_invalidate run by several threads, no call raises, and when   *)
(* no call is in progress a key has a value in in_memory_cache exactly     *)
(* when it has an expiry in in_memory_ttl.                                 *)
(***************************************************************************)
C23_CacheToleratesThreads ==
    /\ \A self \in Threads : Thread(self).pc # "raised"
    /\ (\A self \in Threads : Thread(self).pc = "off")
           => DOMAIN in_memory_cache = DOMAIN in_memory_ttl

(***************************************************************************)
(* C24.  After any sequence of cache_set calls made while Redis is         *)
(* unavailable, in_memory_cache holds at most InMemoryLimit entries,       *)
(* whether or not any of them has expired.                                 *)
(***************************************************************************)
C24_InMemoryCacheBounded ==
    lastCall.op = "cache_set" =>
        Cardinality(DOMAIN in_memory_cache) <= InMemoryLimit

(***************************************************************************)
(* C25.  After train_chatbot or update_chatbot_data has completed for a    *)
(* tenant, no entry the pipeline wrote for it ('answer', 'context',        *)
(* 'llm_answer', 'enhanced_fallback', hashed keys included) can still be   *)
(* served from the cache.                                                  *)
(***************************************************************************)
C25_RetrainInvalidatesPipelineCache ==
    lastCall.op \in {"train_chatbot", "update_chatbot_data"} =>
        \A key \in (DOMAIN redis_store) \cup (DOMAIN in_memory_cache) :
            (\E prefix \in {"answer:", "context:", "llm_answer:",
                             "enhanced_fallback:"} : startswith(key, prefix))
                => ~cache_get(CacheState, key, now, FALSE).hit

(***************************************************************************)
(* C26.  Within one collection add_documents never gives a new point the   *)
(* id of a stored point: a call on a registered collection whose dimension *)
(* is already marked compatible (so that the call does not recreate it)    *)
(* leaves every earlier point as it was, also when a sub-batch fails or    *)
(* the lookup of the starting id fails.                                    *)
(***************************************************************************)
C26_PointIdsNeverReused ==
    [][\A n \in Names :
          (/\ nextText' > nextText
           /\ n \in collections
           /\ <<n, lastAddDim'[n]>> \in collection_dimension_cache
           /\ n \in DOMAIN client
           /\ n \in DOMAIN client')
              => \A id \in DOMAIN client[n].points :
                     /\ id \in DOMAIN client'[n].points
                     /\ client'[n].points[id] = client[n].points[id]]_vars

(***************************************************************************)
(* C27.  Whenever collection_dimension_cache marks (collection, dim) as    *)
(* compatible and the backend holds the collection, the vector size of the *)
(* collection is dim, after any sequence of add_documents,                 *)
(* delete_collection and create_collection.                                *)
(***************************************************************************)
C27_DimensionCacheIsTrue ==
    \A n \in Names, d \in Dims :
        (<<n, d>> \in collection_dimension_cache /\ n \in DOMAIN client)
            => client[n].size = d

(***************************************************************************)
(* C28.  A hit of cache_get(key) returns the value of the most recent      *)
(* cache_set(key), and only when that value has neither expired nor been   *)
(* deleted since, whatever Redis outages and recoveries lie between the    *)
(* calls.                                                                  *)
(***************************************************************************)
C28_GetReturnsLatestSet ==
    (lastCall.op = "cache_get" /\ lastCall.hit) =>
        /\ lastCall.key \in DOMAIN lastCall.latest
        /\ lastCall.latest[lastCall.key].value = lastCall.value
        /\ ~(lastCall.latest[lastCall.key].expires < now)

(***************************************************************************)
(* C29.  In Qdrant mode a collection to which add_documents has just       *)
(* committed a point is in the registry self.collections, so that the      *)
(* following search queries the backend and get_collection_info reports    *)
(* exists=True; this holds also for a collection that was on the backend   *)
(* without being registered.                                               *)
(***************************************************************************)
C29_WrittenCollectionRegistered ==
    [][\A n \in Names :
          (/\ mode = "qdrant"
           /\ n \in DOMAIN client'
           /\ \E id \in DOMAIN client'[n].points :
                 \/ n \notin DOMAIN client
                 \/ id \notin DOMAIN client[n].points
                 \/ client[n].points[id] # client'[n].points[id])
              => /\ n \in collections'
                 /\ get_collection_info(World', n, "none").exists]_vars

(***************************************************************************)
(* C30.  In FAISS mode the index, the metadata store and the text store of *)
(* a collection hold the same number of entries, and entry i of the two    *)
(* stores belongs to the text whose vector is at position i of the index,  *)
(* after any sequence of add_documents calls, those that fall back to      *)
(* text-only storage included.                                             *)
(***************************************************************************)
C30_FaissStoresAligned ==
    mode = "faiss" =>
        \A n \in Names :
            n \in DOMAIN indexes =>
                /\ n \in DOMAIN metadata_stores
                /\ n \in DOMAIN text_stores
                /\ Len(metadata_stores[n]) = Len(indexes[n].vecs)
                /\ Len(text_stores[n]) = Len(indexes[n].vecs)
                /\ \A i \in DOMAIN indexes[n].vecs :
                       /\ text_stores[n][i] = indexes[n].vecs[i]
                       /\ metadata_stores[n][i].text = indexes[n].vecs[i]

====
